---- MODULE Spec2Model ----
(***************************************************************************)
(* omedia: rule matching engine and transfer orchestrator.                 *)
(*                                                                         *)
(* Strings, paths included, are sequences of one-character strings.        *)
(* Python values that the rule engine handles dynamically (str, int, list, *)
(* None) are tagged records.  A computation that may raise yields a record *)
(* [exc, val]; exc = "" means it returned.                                 *)
(***************************************************************************)
EXTENDS Integers, Sequences, FiniteSets, TLC

VARIABLES
    rules,      \* transfer_rules table: rule id -> row
    engine,     \* rule engine under test: inputs and the last outcome
    items,      \* the RecognitionResult objects of the batch in hand
    fs,         \* the storage backend behind the VFS adapter
    history,    \* transfer_history table, in insertion order
    op,         \* the TransferService call in progress and its locals
    ret,        \* what the last TransferService call returned
    calls,      \* TransferService calls made so far, by method
    faults,     \* calls that the database or the storage backend has failed so far
    clock,      \* time.time(), in ticks
    llm,        \* the LLMAgent instance: its limiter and the requests it has sent
    tmdb,       \* the TMDBClient instance: its limiter, its lock, the requests it has sent
    tasks,      \* the coroutines of the recognizer: task id -> position and locals
    cache       \* recognition_cache table: file_hash -> row

vars == <<rules, engine, items, fs, history, op, ret, calls, faults,
          clock, llm, tmdb, tasks, cache>>

transferVars == <<items, fs, history, op, ret, calls, faults>>

recognizerVars == <<clock, llm, tmdb, tasks, cache>>

\* the recognizer variables where the transfer service or the rule engine is tried on its own
RecognizerUnused ==
    /\ clock = 0
    /\ llm = <<>>
    /\ tmdb = <<>>
    /\ tasks = <<>>
    /\ cache = <<>>

----------------------------------------------------------------------------
(* Strings *)

Range(s) == {s[i] : i \in 1..Len(s)}

\* str.lower() over the alphabet the model uses
Lower(c) ==
    CASE c = "A" -> "a"
      [] c = "B" -> "b"
      [] c = "C" -> "c"
      [] c = "D" -> "d"
      [] c = "E" -> "e"
      [] c = "F" -> "f"
      [] c = "G" -> "g"
      [] c = "H" -> "h"
      [] c = "I" -> "i"
      [] c = "J" -> "j"
      [] c = "K" -> "k"
      [] c = "L" -> "l"
      [] c = "M" -> "m"
      [] c = "N" -> "n"
      [] c = "O" -> "o"
      [] c = "P" -> "p"
      [] c = "Q" -> "q"
      [] c = "R" -> "r"
      [] c = "S" -> "s"
      [] c = "T" -> "t"
      [] c = "U" -> "u"
      [] c = "V" -> "v"
      [] c = "W" -> "w"
      [] c = "X" -> "x"
      [] c = "Y" -> "y"
      [] c = "Z" -> "z"
      [] OTHER -> c

LowerStr(s) == [i \in 1..Len(s) |-> Lower(s[i])]

\* Python's  x in y  for two strings
IsSubstr(x, y) ==
    \E i \in 0..(Len(y) - Len(x)) : SubSeq(y, i + 1, i + Len(x)) = x

Digit(d) ==
    CASE d = 0 -> "0" [] d = 1 -> "1" [] d = 2 -> "2" [] d = 3 -> "3"
      [] d = 4 -> "4" [] d = 5 -> "5" [] d = 6 -> "6" [] d = 7 -> "7"
      [] d = 8 -> "8" [] d = 9 -> "9"

DigitChars == {Digit(d) : d \in 0..9}

DigitVal(c) == CHOOSE d \in 0..9 : Digit(d) = c

RECURSIVE IntStr(_)
\* str(n) for an int n >= 0
IntStr(n) == IF n < 10 THEN <<Digit(n)>> ELSE IntStr(n \div 10) \o <<Digit(n % 10)>>

RECURSIVE DigitsVal(_)
DigitsVal(s) ==
    IF s = <<>> THEN 0
    ELSE 10 * DigitsVal(SubSeq(s, 1, Len(s) - 1)) + DigitVal(s[Len(s)])

----------------------------------------------------------------------------
(* Python values *)

PyNone    == [t |-> "none", i |-> 0, s |-> <<>>, l |-> <<>>]
PyInt(n)  == [t |-> "int",  i |-> n, s |-> <<>>, l |-> <<>>]
PyStr(x)  == [t |-> "str",  i |-> 0, s |-> x,    l |-> <<>>]
PyList(x) == [t |-> "list", i |-> 0, s |-> <<>>, l |-> x]

Returned(v) == [exc |-> "", val |-> v]
Raised(e)   == [exc |-> e, val |-> FALSE]

RECURSIVE Str(_)
RECURSIVE ReprList(_)
\* str(v); a str inside a list is shown by repr(), in quotes
Str(v) ==
    CASE v.t = "str"  -> v.s
      [] v.t = "int"  -> IntStr(v.i)
      [] v.t = "none" -> <<"N", "o", "n", "e">>
      [] v.t = "list" -> <<"[">> \o ReprList(v.l) \o <<"]">>

ReprList(l) ==
    IF l = <<>> THEN <<>>
    ELSE LET h == IF l[1].t = "str" THEN <<"'">> \o l[1].s \o <<"'">> ELSE Str(l[1])
         IN  h \o (IF Len(l) > 1 THEN <<",", " ">> \o ReprList(Tail(l)) ELSE <<>>)

\* float(v): a number, ValueError for a str that is no number, TypeError for
\* a list or None.  [exc, num]
Float(v) ==
    CASE v.t = "int"  -> [exc |-> "", num |-> v.i]
      [] v.t = "str"  -> IF v.s # <<>> /\ Range(v.s) \subseteq DigitChars
                         THEN [exc |-> "", num |-> DigitsVal(v.s)]
                         ELSE [exc |-> "ValueError", num |-> 0]
      [] OTHER        -> [exc |-> "TypeError", num |-> 0]

\* re: a pattern over the model's alphabet is a literal unless it holds an
\* unbalanced "(", which re.compile rejects with re.error
ValidRegex(p) == "(" \notin Range(p)

\* re.search(pattern, text, re.IGNORECASE), as a truth value
ReSearch(p, text) ==
    IF ~ValidRegex(p) THEN Raised("re.error")
    ELSE Returned(IsSubstr(LowerStr(p), LowerStr(text)))

----------------------------------------------------------------------------
(* Data model (models/schemas.py).  Optional fields hold PyNone when absent; *)
(* an absent object has present = FALSE.                                     *)

\* Optional[str] rule id: None
NoRule == "<None>"

NoTMDB == [present |-> FALSE, genre_ids |-> PyNone, origin_country |-> PyNone,
           original_language |-> PyNone]

TMDBInfo(genres, countries, language) ==
    [present |-> TRUE, genre_ids |-> genres, origin_country |-> countries,
     original_language |-> language]

NoMedia == [present |-> FALSE, media_type |-> "unknown", title |-> <<>>,
            year |-> PyNone, season |-> PyNone, episode |-> PyNone,
            end_episode |-> PyNone, tmdb_id |-> PyNone, tmdb_info |-> NoTMDB,
            quality |-> PyNone]

MediaInfo(mt, title, year, season, episode, tmdb_id, tmdb_info) ==
    [present |-> TRUE, media_type |-> mt, title |-> title, year |-> year,
     season |-> season, episode |-> episode, end_episode |-> PyNone,
     tmdb_id |-> tmdb_id, tmdb_info |-> tmdb_info, quality |-> PyNone]

FileInfo(name, path, extension) ==
    [name |-> name, path |-> path, extension |-> extension]

NoName == <<>>

\* a result as the recognition pipeline hands it on: no routing outcome yet
RecognitionResult(file_info, media_info, confidence) ==
    [file_info |-> file_info, media_info |-> media_info, confidence |-> confidence,
     matched_rule_id |-> NoRule, matched_rule_name |-> NoName,
     target_path |-> PyNone, target_folder_name |-> PyNone,
     target_file_name |-> PyNone]

RuleCondition(field, operator, value) ==
    [field |-> field, operator |-> operator, value |-> value]

----------------------------------------------------------------------------
(* Rule matching engine (services/transfer/rule_engine.py) *)

\* GENRE_MAP.get(gid, str(gid))
GENRE_MAP(gid) ==
    CASE gid = 10759 -> <<"A", "c", "t", "i", "o", "n", " ", "&", " ", "A", "d", "v", "e", "n", "t", "u", "r", "e">>
      [] gid = 16 -> <<"A", "n", "i", "m", "a", "t", "i", "o", "n">>
      [] gid = 35 -> <<"C", "o", "m", "e", "d", "y">>
      [] gid = 80 -> <<"C", "r", "i", "m", "e">>
      [] gid = 99 -> <<"D", "o", "c", "u", "m", "e", "n", "t", "a", "r", "y">>
      [] gid = 18 -> <<"D", "r", "a", "m", "a">>
      [] gid = 10751 -> <<"F", "a", "m", "i", "l", "y">>
      [] gid = 10762 -> <<"K", "i", "d", "s">>
      [] gid = 9648 -> <<"M", "y", "s", "t", "e", "r", "y">>
      [] gid = 10763 -> <<"N", "e", "w", "s">>
      [] gid = 10764 -> <<"R", "e", "a", "l", "i", "t", "y">>
      [] gid = 10765 -> <<"S", "c", "i", "-", "F", "i", " ", "&", " ", "F", "a", "n", "t", "a", "s", "y">>
      [] gid = 10766 -> <<"S", "o", "a", "p">>
      [] gid = 10767 -> <<"T", "a", "l", "k">>
      [] gid = 10768 -> <<"W", "a", "r", " ", "&", " ", "P", "o", "l", "i", "t", "i", "c", "s">>
      [] gid = 37 -> <<"W", "e", "s", "t", "e", "r", "n">>
      [] gid = 28 -> <<"A", "c", "t", "i", "o", "n">>
      [] gid = 12 -> <<"A", "d", "v", "e", "n", "t", "u", "r", "e">>
      [] gid = 14 -> <<"F", "a", "n", "t", "a", "s", "y">>
      [] gid = 36 -> <<"H", "i", "s", "t", "o", "r", "y">>
      [] gid = 27 -> <<"H", "o", "r", "r", "o", "r">>
      [] gid = 10402 -> <<"M", "u", "s", "i", "c">>
      [] gid = 10749 -> <<"R", "o", "m", "a", "n", "c", "e">>
      [] gid = 878 -> <<"S", "c", "i", "e", "n", "c", "e", " ", "F", "i", "c", "t", "i", "o", "n">>
      [] gid = 10770 -> <<"T", "V", " ", "M", "o", "v", "i", "e">>
      [] gid = 53 -> <<"T", "h", "r", "i", "l", "l", "e", "r">>
      [] gid = 10752 -> <<"W", "a", "r">>
      [] OTHER -> IntStr(gid)

Catch(r, caught, fallback) == IF r.exc \in caught THEN Returned(fallback) ELSE r

_get_field_value(field, result) ==
    LET media_info == result.media_info
        tmdb_info  == IF media_info.present THEN media_info.tmdb_info ELSE NoTMDB
    IN  CASE field = "genre" ->
               IF tmdb_info.present /\ tmdb_info.genre_ids.t = "list"
                  /\ tmdb_info.genre_ids.l # <<>>
               THEN PyList([k \in 1..Len(tmdb_info.genre_ids.l) |->
                               PyStr(GENRE_MAP(tmdb_info.genre_ids.l[k].i))])
               ELSE PyList(<<>>)
          [] field = "country" ->
               IF tmdb_info.present /\ tmdb_info.origin_country.t = "list"
                  /\ tmdb_info.origin_country.l # <<>>
               THEN tmdb_info.origin_country
               ELSE PyList(<<>>)
          [] field = "language" ->
               IF tmdb_info.present THEN tmdb_info.original_language ELSE PyNone
          [] field \in {"year", "year_range"} ->
               IF media_info.present THEN media_info.year ELSE PyNone
          [] field = "keyword" -> PyStr(result.file_info.name)
          [] field = "network" -> PyNone
          [] field = "rating"  -> PyNone
          [] OTHER -> PyNone

_equals(field_value, expected) ==
    IF field_value.t = "str"
    THEN Returned(LowerStr(field_value.s) = LowerStr(Str(expected)))
    ELSE Returned(field_value = expected)

_contains(field_value, search) ==
    LET search_str == LowerStr(Str(search))
    IN  CASE field_value.t = "list" ->
               Returned(\E k \in 1..Len(field_value.l) :
                           IsSubstr(search_str, LowerStr(Str(field_value.l[k]))))
          [] field_value.t = "str" ->
               Returned(IsSubstr(search_str, LowerStr(field_value.s)))
          [] OTHER -> Returned(FALSE)

_in_list(field_value, allowed) ==
    LET lst == IF allowed.t = "list" THEN allowed.l ELSE <<allowed>>
        allowed_lower == {LowerStr(Str(lst[k])) : k \in 1..Len(lst)}
    IN  IF field_value.t = "list"
        THEN Returned(\E k \in 1..Len(field_value.l) :
                         LowerStr(Str(field_value.l[k])) \in allowed_lower)
        ELSE Returned(LowerStr(Str(field_value)) \in allowed_lower)

RECURSIVE AnySearch(_, _)
\* any(re.search(pattern, str(v), re.IGNORECASE) for v in values): the first
\* call that raises ends the evaluation
AnySearch(pattern, values) ==
    IF values = <<>> THEN Returned(FALSE)
    ELSE LET r == ReSearch(pattern, Str(values[1]))
         IN  IF r.exc # "" THEN r
             ELSE IF r.val THEN Returned(TRUE)
             ELSE AnySearch(pattern, Tail(values))

\* _matches without its  except re.error
_matches_raising(field_value, pattern) ==
    IF field_value.t = "list"
    THEN AnySearch(Str(pattern), field_value.l)
    ELSE ReSearch(Str(pattern), Str(field_value))

_matches(field_value, pattern) ==
    Catch(IF field_value.t = "list"
          THEN AnySearch(Str(pattern), field_value.l)
          ELSE ReSearch(Str(pattern), Str(field_value)),
          {"re.error"}, FALSE)

\* a >= b (gte) or a <= b of two float() conversions: the first that raises decides
Compare2(a, b, gte) ==
    IF a.exc # "" THEN Raised(a.exc)
    ELSE IF b.exc # "" THEN Raised(b.exc)
    ELSE Returned(IF gte THEN a.num >= b.num ELSE a.num <= b.num)

_between(field_value, range_val) ==
    IF range_val.t # "list" \/ Len(range_val.l) # 2 THEN Returned(FALSE)
    ELSE LET val  == Float(field_value)
             low  == Float(range_val.l[1])
             high == Float(range_val.l[2])
             body == IF val.exc # "" THEN Raised(val.exc)
                     ELSE IF low.exc # "" THEN Raised(low.exc)
                     ELSE IF high.exc # "" THEN Raised(high.exc)
                     ELSE Returned(low.num <= val.num /\ val.num <= high.num)
         IN  Catch(body, {"ValueError", "TypeError"}, FALSE)

_gte(field_value, threshold) ==
    Catch(Compare2(Float(field_value), Float(threshold), TRUE),
          {"ValueError", "TypeError"}, FALSE)

_lte(field_value, threshold) ==
    Catch(Compare2(Float(field_value), Float(threshold), FALSE),
          {"ValueError", "TypeError"}, FALSE)

_evaluate_condition(condition, result) ==
    LET field_value == _get_field_value(condition.field, result)
        value == condition.value
    IN  IF field_value = PyNone THEN Returned(FALSE)
        ELSE CASE condition.operator = "equals"   -> _equals(field_value, value)
               [] condition.operator = "contains" -> _contains(field_value, value)
               [] condition.operator = "in"       -> _in_list(field_value, value)
               [] condition.operator = "matches"  -> _matches(field_value, value)
               [] condition.operator = "between"  -> _between(field_value, value)
               [] condition.operator = "gte"      -> _gte(field_value, value)
               [] condition.operator = "lte"      -> _lte(field_value, value)
               [] OTHER -> Returned(FALSE)

RECURSIVE AllConditions(_, _)
\* the loop of _evaluate_rule: stops at the first condition that is false or raises
AllConditions(conditions, result) ==
    IF conditions = <<>> THEN Returned(TRUE)
    ELSE LET r == _evaluate_condition(conditions[1], result)
         IN  IF r.exc # "" THEN r
             ELSE IF ~r.val THEN Returned(FALSE)
             ELSE AllConditions(Tail(conditions), result)

_evaluate_rule(rule, result) ==
    IF rule.conditions = <<>> THEN Returned(TRUE)
    ELSE AllConditions(rule.conditions, result)


RuleRow(id, priority, media_type, storage_type, conditions, target_path, naming_pattern, enabled) ==
    [id |-> id, name |-> <<"rule", id>>, priority |-> priority,
     media_type |-> media_type, storage_type |-> storage_type,
     conditions |-> conditions, target_path |-> target_path,
     naming_pattern |-> naming_pattern, enabled |-> enabled]

\* the query without its  ORDER BY priority
OrderByPriority_unordered(tbl, ids) ==
    {o \in [1..Cardinality(ids) -> ids] :
        \A a, b \in 1..Cardinality(ids) : a # b => o[a] # o[b]}

\* the orders in which  ORDER BY priority  may deliver the rows `ids` of tbl:
\* rows of equal priority come in an order the store chooses
OrderByPriority(tbl, ids) ==
    {o \in [1..Cardinality(ids) -> ids] :
        /\ \A a, b \in 1..Cardinality(ids) : a # b => o[a] # o[b]
        /\ \A a, b \in 1..Cardinality(ids) :
              a < b => tbl[o[a]].priority <= tbl[o[b]].priority}

\* the rows the query of match_rule selects
Applicable(tbl, media_type, storage_type) ==
    {id \in DOMAIN tbl :
        /\ tbl[id].enabled
        /\ tbl[id].media_type \in {media_type, "all"}
        /\ tbl[id].storage_type \in {storage_type, "all"}}

RECURSIVE FirstMatching(_, _, _)
\* the loop of match_rule over the ordered rows: [exc, val], val a rule id or NoRule
FirstMatching(tbl, order, result) ==
    IF order = <<>> THEN Returned(NoRule)
    ELSE LET r == _evaluate_rule(tbl[order[1]], result)
         IN  IF r.exc # "" THEN [exc |-> r.exc, val |-> NoRule]
             ELSE IF r.val THEN Returned(order[1])
             ELSE FirstMatching(tbl, Tail(order), result)

\* every outcome match_rule can have; db_ok: the query succeeds
match_rule(result, storage_type, tbl, db_ok) ==
    IF ~result.media_info.present THEN {Returned(NoRule)}
    ELSE IF ~db_ok THEN {[exc |-> "SQLAlchemyError", val |-> NoRule]}
    ELSE {FirstMatching(tbl, o, result) :
            o \in OrderByPriority(tbl,
                    Applicable(tbl, result.media_info.media_type, storage_type))}

----------------------------------------------------------------------------
(* Paths (pathlib.PurePosixPath) and str helpers *)

\* Python truthiness of a value:  x or y  takes y when x is falsy
Truthy(v) ==
    CASE v.t = "none" -> FALSE
      [] v.t = "int"  -> v.i # 0
      [] v.t = "str"  -> v.s # <<>>
      [] v.t = "list" -> v.l # <<>>

Or(v, default) == IF Truthy(v) THEN v ELSE default

RECURSIVE Replace(_, _, _)
\* s.replace(old, new), old not empty
Replace(s, old, new) ==
    IF Len(s) < Len(old) THEN s
    ELSE IF SubSeq(s, 1, Len(old)) = old
         THEN new \o Replace(SubSeq(s, Len(old) + 1, Len(s)), old, new)
         ELSE <<s[1]>> \o Replace(Tail(s), old, new)

RECURSIVE PosixJoin(_)
\* str(PurePosixPath(*parts)) for parts that are normalised themselves: empty
\* parts are dropped and an absolute part makes the parts before it void
PosixJoin(parts) ==
    IF parts = <<>> THEN <<>>
    ELSE LET last == parts[Len(parts)]
             init == PosixJoin(SubSeq(parts, 1, Len(parts) - 1))
         IN  IF last = <<>> THEN init
             ELSE IF last[1] = "/" \/ init = <<>> THEN last
             ELSE IF init[Len(init)] = "/" THEN init \o last
             ELSE init \o <<"/">> \o last

\* str(PurePosixPath(p).parent)
PosixParent(p) ==
    LET slashes == {k \in 1..Len(p) : p[k] = "/"}
    IN  IF slashes = {} THEN <<".">>
        ELSE LET k == CHOOSE x \in slashes : \A y \in slashes : y <= x
             IN  IF k = 1 THEN <<"/">> ELSE SubSeq(p, 1, k - 1)

\* path is dir itself or lies below dir
Under(path, dir) ==
    \/ path = dir
    \/ /\ Len(path) > Len(dir)
       /\ SubSeq(path, 1, Len(dir)) = dir
       /\ dir[Len(dir)] = "/" \/ path[Len(dir) + 1] = "/"

RECURSIVE Ancestors(_)
\* the directories mkdir(parents=True) creates above and including path
Ancestors(path) ==
    IF path \in {<<"/">>, <<".">>, <<>>} THEN {}
    ELSE {path} \cup Ancestors(PosixParent(path))

\* "{:02d}".format(n) for an int n >= 0
Pad2(n) == IF n < 10 THEN <<"0">> \o IntStr(n) ELSE IntStr(n)

----------------------------------------------------------------------------
(* Naming service (services/transfer/naming_service.py).  A template is the  *)
(* sequence of its literal runs and placeholders; str.replace leaves the     *)
(* doubled braces of "{{tmdb-{tmdb_id}}}" as they are.                       *)

Lit(chars)    == [var |-> "", fmt |-> "", lit |-> chars]
Var(key)      == [var |-> key, fmt |-> "", lit |-> <<>>]
VarF(key, f)  == [var |-> key, fmt |-> f, lit |-> <<>>]

FolderTemplate_emby ==
    <<Var("title"), Lit(<<" ", "(">>), Var("year"), Lit(<<")", " ", "{", "{", "t", "m", "d", "b", "-">>),
      Var("tmdb_id"), Lit(<<"}", "}">>)>>

FolderTemplate_plex ==
    <<Var("title"), Lit(<<" ", "(">>), Var("year"), Lit(<<")">>)>>

MovieFileTemplate ==
    <<Var("title"), Lit(<<" ", "(">>), Var("year"), Lit(<<")">>), Var("version"),
      Lit(<<".">>), Var("ext")>>

SeasonFolderTemplate ==
    <<Lit(<<"S", "e", "a", "s", "o", "n", " ">>), VarF("season", "02d")>>

EpisodeFileTemplate_emby ==
    <<Var("title"), Lit(<<" ", "-", " ", "S">>), VarF("season", "02d"), Lit(<<"E">>),
      VarF("episode", "02d"), Lit(<<" ", "-", " ">>), Var("episode_title"), Lit(<<".">>),
      Var("ext")>>

EpisodeFileTemplate_plex ==
    <<Var("title"), Lit(<<" ", "-", " ", "S">>), VarF("season", "02d"), Lit(<<"E">>),
      VarF("episode", "02d"), Lit(<<".">>), Var("ext")>>

\* settings.naming_presets
naming_presets(name) ==
    IF name = "plex_standard"
    THEN [movie_folder |-> FolderTemplate_plex, movie_file |-> MovieFileTemplate,
          tv_folder |-> FolderTemplate_plex, tv_season_folder |-> SeasonFolderTemplate,
          tv_episode_file |-> EpisodeFileTemplate_plex]
    ELSE [movie_folder |-> FolderTemplate_emby, movie_file |-> MovieFileTemplate,
          tv_folder |-> FolderTemplate_emby, tv_season_folder |-> SeasonFolderTemplate,
          tv_episode_file |-> EpisodeFileTemplate_emby]

\* pattern_name: a preset name, or "" for None (the default preset); an
\* unknown name falls back to emby_standard
_get_pattern(pattern_name) ==
    IF pattern_name \in {"emby_standard", "plex_standard"}
    THEN naming_presets(pattern_name)
    ELSE naming_presets("emby_standard")

Str_Unknown == <<"U", "n", "k", "n", "o", "w", "n">>

_build_context(result) ==
    LET media_info == result.media_info
        e   == result.file_info.extension
        ext == IF e # <<>> /\ e[1] = "." THEN e
               ELSE IF e # <<>> THEN <<".">> \o e ELSE <<>>
    IN  [title         |-> IF media_info.title # <<>> THEN PyStr(media_info.title)
                           ELSE PyStr(Str_Unknown),
         year          |-> Or(media_info.year, PyStr(Str_Unknown)),
         tmdb_id       |-> Or(media_info.tmdb_id, PyStr(<<"0">>)),
         version       |-> PyStr(<<>>),
         ext           |-> PyStr(ext),
         season        |-> Or(media_info.season, PyInt(1)),
         episode       |-> Or(media_info.episode, PyInt(1)),
         end_episode   |-> media_info.end_episode,
         episode_title |-> PyStr(<<>>),
         episode_range |-> PyStr(<<>>)]

\* one placeholder: {key} renders str(value), '' for None; {key:02d} formats
\* an int, and falls back to str(value) on the ValueError a str gives
RenderSegment(seg, context) ==
    IF seg.var = "" THEN seg.lit
    ELSE LET value == context[seg.var]
         IN  IF seg.fmt = ""
             THEN (IF value.t = "none" THEN <<>> ELSE Str(value))
             ELSE (IF value.t = "int" THEN Pad2(value.i) ELSE Str(value))

RECURSIVE _substitute(_, _)
_substitute(template, context) ==
    IF template = <<>> THEN <<>>
    ELSE RenderSegment(template[1], context) \o _substitute(Tail(template), context)

\* the full-width stand-ins of _clean_name, each one character of the result
CleanChar(c) ==
    CASE c = ":"  -> "U+FF1A"
      [] c = "/"  -> "U+FF0F"
      [] c = "\\" -> "U+FF3C"
      [] c = "?"  -> "U+FF1F"
      [] c = "*"  -> "U+FF0A"
      [] c = "<"  -> "U+FF1C"
      [] c = ">"  -> "U+FF1E"
      [] c = "|"  -> "U+FF5C"
      [] c = "\"" -> "U+FF02"
      [] OTHER    -> c

RECURSIVE CollapseSpaces(_)
\* re.sub(r"\s+", " ", name)
CollapseSpaces(s) ==
    IF Len(s) < 2 THEN s
    ELSE IF s[1] = " " /\ s[2] = " " THEN CollapseSpaces(Tail(s))
    ELSE <<s[1]>> \o CollapseSpaces(Tail(s))

RECURSIVE Strip(_)
\* name.strip(" .")
Strip(s) ==
    IF s = <<>> THEN s
    ELSE IF s[1] \in {" ", "."} THEN Strip(Tail(s))
    ELSE IF s[Len(s)] \in {" ", "."} THEN Strip(SubSeq(s, 1, Len(s) - 1))
    ELSE s

_clean_name(name) ==
    Strip(CollapseSpaces([k \in 1..Len(name) |-> CleanChar(name[k])]))

\* the dict of names: a key the dict lacks holds PyNone
Names(folder_name, season_folder, file_name) ==
    [folder_name |-> folder_name, season_folder |-> season_folder, file_name |-> file_name]

_generate_movie_names(pattern, context) ==
    Names(PyStr(_clean_name(_substitute(pattern.movie_folder, context))), PyNone,
          PyStr(_clean_name(_substitute(pattern.movie_file, context))))

RECURSIVE EpisodeRangeTemplate(_)
\* episode_pattern.replace("E{episode:02d}", "{episode_range}")
EpisodeRangeTemplate(template) ==
    IF Len(template) < 2 THEN template
    ELSE IF /\ template[1].var = "" /\ template[1].lit # <<>>
            /\ template[1].lit[Len(template[1].lit)] = "E"
            /\ template[2] = VarF("episode", "02d")
         THEN <<Lit(SubSeq(template[1].lit, 1, Len(template[1].lit) - 1)),
                Var("episode_range")>> \o EpisodeRangeTemplate(Tail(Tail(template)))
         ELSE <<template[1]>> \o EpisodeRangeTemplate(Tail(template))

_generate_tv_names(pattern, context) ==
    LET ranged == [context EXCEPT !.episode_range =
                      PyStr(<<"E">> \o Pad2(context.episode.i) \o <<"-", "E">>
                            \o Pad2(context.end_episode.i))]
        file_name == IF Truthy(context.end_episode)
                     THEN _substitute(EpisodeRangeTemplate(pattern.tv_episode_file), ranged)
                     ELSE _substitute(pattern.tv_episode_file, context)
    IN  Names(PyStr(_clean_name(_substitute(pattern.tv_folder, context))),
              PyStr(_clean_name(_substitute(pattern.tv_season_folder, context))),
              PyStr(_clean_name(file_name)))

_generate_fallback_names(original_name) ==
    LET dots == {k \in 1..Len(original_name) : original_name[k] = "."}
        stem == IF dots = {} THEN original_name
                ELSE SubSeq(original_name, 1,
                            (CHOOSE x \in dots : \A y \in dots : y <= x) - 1)
    IN  Names(PyStr(_clean_name(stem)), PyNone, PyStr(original_name))

generate_names(result, pattern_name) ==
    IF ~result.media_info.present
    THEN _generate_fallback_names(result.file_info.name)
    ELSE IF result.media_info.media_type = "movie"
         THEN _generate_movie_names(_get_pattern(pattern_name), _build_context(result))
         ELSE _generate_tv_names(_get_pattern(pattern_name), _build_context(result))

----------------------------------------------------------------------------
(* VFS adapter (vfs/base.py; the semantics are those of vfs/local_adapter.py). *)
(* A filesystem is [files, dirs]: files a set of <<path, content>>.            *)

FilePaths(f) == {x[1] : x \in f.files}

\* adapter.exists
Exists(f, path) == path \in f.dirs \/ path \in FilePaths(f)

\* mkdir(path, parents=True) can succeed: nothing on the way is a file
MkdirPossible(f, path) == Ancestors(path) \cap FilePaths(f) = {}

\* adapter.mkdir(path, parents=True): exist_ok
Mkdir(f, path) == [f EXCEPT !.dirs = @ \cup Ancestors(path)]

\* adapter.delete(path, recursive=True); an absent path is left as it is
Delete(f, path) ==
    [files |-> {x \in f.files : ~Under(x[1], path)},
     dirs  |-> {d \in f.dirs : ~Under(d, path)}]

\* adapter.move(src, dst, overwrite=True) of an existing file src
Move(f, src, dst) ==
    LET content == (CHOOSE x \in f.files : x[1] = src)[2]
        cleared == Delete(f, dst)
    IN  [files |-> (cleared.files \ {<<src, content>>}) \cup {<<dst, content>>},
         dirs  |-> cleared.dirs \cup Ancestors(PosixParent(dst))]

\* adapter.move of an existing src whose rename fails: dst is gone by then
MoveFailed(f, src, dst) ==
    LET cleared == Delete(f, dst)
    IN  [cleared EXCEPT !.dirs = @ \cup Ancestors(PosixParent(dst))]

\* what lies below a directory
Contents(f, dir) == {x \in f.files : Under(x[1], dir) /\ x[1] # dir}

----------------------------------------------------------------------------
(* Transfer service (services/transfer/service.py) *)

_substitute_path_template(template, result) ==
    IF ~result.media_info.present THEN template
    ELSE LET m  == result.media_info
             s1 == Replace(template, <<"{", "t", "i", "t", "l", "e", "}">>,
                           IF m.title # <<>> THEN m.title ELSE Str_Unknown)
             s2 == Replace(s1, <<"{", "y", "e", "a", "r", "}">>,
                           Str(Or(m.year, PyStr(Str_Unknown))))
             s3 == Replace(s2, <<"{", "t", "m", "d", "b", "_", "i", "d", "}">>,
                           Str(Or(m.tmdb_id, PyStr(<<"0">>))))
             s4 == Replace(s3, <<"{", "q", "u", "a", "l", "i", "t", "y", "}">>,
                           Or(m.quality, PyStr(<<>>)).s)
             s5 == Replace(s4, <<"{", "s", "e", "a", "s", "o", "n", "}">>,
                           IF Truthy(m.season) THEN Pad2(m.season.i) ELSE <<>>)
         IN  s5

_build_full_target_path(base_path, names, media_type) ==
    PosixJoin(<<base_path>>
              \o (IF Truthy(names.folder_name) THEN <<names.folder_name.s>> ELSE <<>>)
              \o (IF media_type = "tv" /\ Truthy(names.season_folder)
                  THEN <<names.season_folder.s>> ELSE <<>>)
              \o <<names.file_name.s>>)

\* the row _record_transfer adds
_record_transfer(item, source_path, target_path, storage_type, status, error_message) ==
    [source_path |-> source_path, target_path |-> target_path,
     storage_type |-> storage_type,
     media_type |-> IF item.media_info.present THEN item.media_info.media_type
                    ELSE "unknown",
     matched_rule_id |-> item.matched_rule_id, status |-> status,
     error_message |-> error_message]

----------------------------------------------------------------------------
(* Inputs of the rule engine *)

RuleIds == {"r1", "r2"}

MediaTypeFilters   == {"movie", "tv", "all"}
StorageTypes       == {"local", "p115"}
StorageTypeFilters == {"local", "p115", "all"}

Path_movies == <<"/", "m">>
Path_shows  == <<"/", "t">>

Name_A2020 == <<"A", "2", "0", "2", "0">>
Name_Drama == <<"D", "r", "a", "m", "a">>

YearGte2000  == RuleCondition("year", "gte", PyInt(2000))
BadRegexCond == RuleCondition("keyword", "matches", PyStr(<<"(">>))

\* condition lists of the rules in the tables match_rule is tried on
MatchConditionLists == {<<>>, <<YearGte2000>>, <<YearGte2000, BadRegexCond>>}

RuleTargets(id) == IF id = "r1" THEN Path_movies ELSE Path_shows

\* every table over a subset of ids
RuleTables(ids) ==
    UNION {
      {[id \in D |-> RuleRow(id, c[id].priority, c[id].media_type, c[id].storage_type,
                             c[id].conditions, RuleTargets(id), "", c[id].enabled)] :
          c \in [D -> [priority : {10, 20}, media_type : MediaTypeFilters,
                       storage_type : StorageTypeFilters,
                       conditions : MatchConditionLists, enabled : BOOLEAN]]} :
      D \in SUBSET ids}

File_A == FileInfo(Name_A2020, <<"/", "i", "/">> \o Name_A2020, <<".", "m", "k", "v">>)

TMDB_Full  == TMDBInfo(PyList(<<PyInt(18), PyInt(7)>>), PyList(<<PyStr(<<"U", "S">>)>>),
                       PyStr(<<"e", "n">>))
TMDB_Empty == TMDBInfo(PyList(<<>>), PyList(<<>>), PyNone)
TMDB_Nulls == TMDBInfo(PyNone, PyNone, PyNone)

Media(mt, year, tmdb_info) ==
    MediaInfo(mt, <<"A">>, year, PyInt(1), PyInt(2), PyInt(1), tmdb_info)

\* results match_rule is tried on
MatchResults ==
    {RecognitionResult(File_A, m, "high") :
        m \in {NoMedia} \cup {Media(mt, PyInt(2020), TMDB_Full) : mt \in {"movie", "tv"}}}

\* results single conditions are tried on
ConditionResults ==
    {RecognitionResult(File_A, m, "high") :
        m \in {NoMedia, Media("movie", PyNone, NoTMDB), Media("movie", PyInt(2020), TMDB_Empty),
               Media("tv", PyInt(2020), TMDB_Nulls), Media("movie", PyInt(2020), TMDB_Full)}}

ConditionFields ==
    {"genre", "country", "language", "year", "year_range", "keyword", "network",
     "rating", "studio"}

ConditionOperators ==
    {"equals", "contains", "in", "matches", "between", "gte", "lte", "startswith"}

ConditionValues ==
    {PyNone, PyInt(2000), PyInt(2020), PyStr(<<>>), PyStr(<<"a">>), PyStr(<<"(">>),
     PyStr(<<"2", "0", "2", "0">>), PyStr(<<"e", "n">>), PyStr(Name_Drama),
     PyList(<<>>), PyList(<<PyInt(1990), PyInt(2030)>>),
     PyList(<<PyStr(<<"a">>), PyInt(2030)>>),
     PyList(<<PyInt(1990), PyInt(2000), PyInt(2030)>>),
     PyList(<<PyStr(<<"u", "s">>), PyStr(<<"d", "r", "a", "m", "a">>)>>)}

Conditions ==
    {RuleCondition(f, o, v) :
        f \in ConditionFields, o \in ConditionOperators, v \in ConditionValues}

\* the rule engine before it is tried
EngineInit(mode, result, storage_type) ==
    [mode |-> mode, phase |-> "init", result |-> result, storage_type |-> storage_type,
     condition |-> RuleCondition("", "", PyNone), outcome |-> Returned(FALSE),
     db_ok |-> TRUE, matched |-> Returned(NoRule)]

----------------------------------------------------------------------------
(* State of the transfer service *)

MaxBatch == 2
MaxDryRuns == 2
MaxExecutes == 1
MaxSeriesCalls == 1
MaxFaults == 1

Idle ==
    [kind |-> "idle", idx |-> 0, override |-> NoRule, storage_type |-> "",
     success_count |-> 0, failed_count |-> 0, errors |-> <<>>, processed |-> <<>>,
     high |-> 0, medium |-> 0, low |-> 0, first_row |-> 0, log |-> <<>>,
     groups |-> <<>>, gidx |-> 0, eidx |-> 0, gstart |-> 0, season_path |-> <<>>,
     base |-> <<>>]

NoReturn ==
    [kind |-> "none", success |-> TRUE, transferred_count |-> 0, failed_count |-> 0,
     errors |-> <<>>, total_items |-> 0, recognized_items |-> 0, high |-> 0,
     medium |-> 0, low |-> 0, items |-> <<>>, first_row |-> 0, last_row |-> 0]

NoCalls == [dry_run |-> 0, execute |-> 0, series |-> 0]

EmptyFS == [files |-> {}, dirs |-> {}]

\* the transfer variables where the rule engine is tried on its own
TransferUnused ==
    /\ items = <<>>
    /\ fs = EmptyFS
    /\ history = <<>>
    /\ op = Idle
    /\ ret = NoReturn
    /\ calls = NoCalls
    /\ faults = 0

Dir_inbox == <<"/", "i">>

\* the k-th file of the inbox: /i/<k>.mkv
InboxFile(k) ==
    LET name == <<Digit(k), ".", "m", "k", "v">>
    IN  FileInfo(name, PosixJoin(<<Dir_inbox, name>>), <<".", "m", "k", "v">>)

Movie_A == MediaInfo("movie", <<"A">>, PyInt(2020), PyNone, PyNone, PyInt(1), TMDB_Full)
Show_B  == MediaInfo("tv", <<"B">>, PyInt(2020), PyInt(1), PyInt(2), PyInt(7), TMDB_Full)

\* what recognition can hand on for a file: media info and confidence
Recognitions == {<<NoMedia, "low">>, <<Movie_A, "high">>, <<Show_B, "medium">>}

\* the batches of n recognized inbox files
Batches(n) ==
    {[k \in 1..n |-> RecognitionResult(InboxFile(k), r[k][1], r[k][2])] :
        r \in [1..n -> Recognitions]}

Template_shows == <<"/", "t", "/", "{", "t", "i", "t", "l", "e", "}">>

\* the rules of the installation: movies to /m, anything from 2000 on to /t/{title}
TransferRules ==
    [id \in RuleIds |->
        IF id = "r1"
        THEN RuleRow("r1", 10, "movie", "all", <<>>, Path_movies, "", TRUE)
        ELSE RuleRow("r2", 20, "all", "local", <<YearGte2000>>, Template_shows,
                     "plex_standard", TRUE)]

\* lines 63-81: the routing fields of a result that matched rule
Routed(result, rule) ==
    LET names == generate_names(result, rule.naming_pattern)
    IN  [result EXCEPT
            !.matched_rule_id    = rule.id,
            !.matched_rule_name  = rule.name,
            !.target_path        = PyStr(_substitute_path_template(rule.target_path, result)),
            !.target_folder_name = names.folder_name,
            !.target_file_name   = names.file_name]

\* lines 58-92 on every result of a batch b, no call failing
Reported(b) ==
    [k \in DOMAIN b |->
        LET m == match_rule(b[k], "local", TransferRules, TRUE)
        IN  IF m = {Returned(NoRule)} THEN b[k]
            ELSE Routed(b[k], TransferRules[(CHOOSE r \in m : TRUE).val])]

\* a batch of recognized files in the inbox; reported: a dry run has routed it
InitTransfer(reported) ==
    /\ rules = TransferRules
    /\ engine = EngineInit("off", RecognitionResult(File_A, NoMedia, "low"), "local")
    /\ \E n \in 0..MaxBatch :
          \E b \in Batches(n) : items = IF reported THEN Reported(b) ELSE b
    /\ fs = [files |-> {<<items[k].file_info.path, items[k].file_info.name>> :
                          k \in 1..Len(items)},
             dirs  |-> {Dir_inbox}]
    /\ history = <<>>
    /\ op = Idle
    /\ ret = NoReturn
    /\ calls = NoCalls
    /\ faults = 0
    /\ RecognizerUnused

\* what the environment may do to the next call: nothing, or fail it
Fates == IF faults < MaxFaults THEN BOOLEAN ELSE {TRUE}

\* PUT /rules/{id} with enabled given: the management interface switches a rule
update_rule(id) ==
    /\ op.kind = "idle"
    /\ id \in DOMAIN rules
    /\ rules' = [rules EXCEPT ![id].enabled = ~@]
    /\ UNCHANGED <<recognizerVars, engine, transferVars>>

\* the locals of a call at its first line
Locals(kind, override) ==
    [Idle EXCEPT !.kind = kind, !.idx = 1, !.override = override,
                 !.storage_type = "local", !.first_row = Len(history) + 1]

(* create_dry_run_report *)

DryRunBegin ==
    /\ op.kind = "idle"
    /\ calls.dry_run < MaxDryRuns
    /\ calls' = [calls EXCEPT !.dry_run = @ + 1]
    /\ op' = Locals("dry_run", NoRule)
    /\ UNCHANGED <<recognizerVars, rules, engine, items, fs, history, ret, faults>>

\* a counting that leaves out the results of medium confidence
count_confidence_high_low(o, confidence) ==
    [o EXCEPT !.high = IF confidence = "high" THEN @ + 1 ELSE @,
              !.low  = IF confidence = "low" THEN @ + 1 ELSE @]

\* lines 83-90: count confidence levels
count_confidence(o, confidence) ==
    [o EXCEPT !.high   = IF confidence = "high" THEN @ + 1 ELSE @,
              !.medium = IF confidence = "medium" THEN @ + 1 ELSE @,
              !.low    = IF confidence \notin {"high", "medium"} THEN @ + 1 ELSE @]

\* one pass of the loop, lines 58-99
DryRunItem ==
    /\ op.kind = "dry_run"
    /\ op.idx <= Len(items)
    /\ LET result == items[op.idx]
       IN  \E db_ok \in (IF result.media_info.present THEN Fates ELSE {TRUE}) :
           \E m \in match_rule(result, op.storage_type, rules, db_ok) :
              /\ faults' = IF db_ok THEN faults ELSE faults + 1
              /\ IF m.exc # ""
                 THEN /\ op' = [op EXCEPT
                                  !.idx = @ + 1,
                                  !.errors = Append(@, [file  |-> result.file_info.name,
                                                        error |-> m.exc])]
                      /\ UNCHANGED items
                 ELSE /\ items' = [items EXCEPT ![op.idx] =
                                      IF m.val # NoRule THEN Routed(result, rules[m.val])
                                      ELSE result]
                      /\ op' = [count_confidence(op, result.confidence) EXCEPT
                                  !.idx = @ + 1,
                                  !.processed = Append(@, op.idx)]
    /\ UNCHANGED <<recognizerVars, rules, engine, fs, history, ret, calls>>

\* lines 101-109
DryRunEnd ==
    /\ op.kind = "dry_run"
    /\ op.idx > Len(items)
    /\ ret' = [NoReturn EXCEPT
                  !.kind = "dry_run",
                  !.total_items = Len(items),
                  !.recognized_items =
                      Cardinality({k \in 1..Len(op.processed) :
                                      items[op.processed[k]].media_info.present}),
                  !.high = op.high, !.medium = op.medium, !.low = op.low,
                  !.items = op.processed, !.errors = op.errors]
    /\ op' = Idle
    /\ UNCHANGED <<recognizerVars, rules, engine, items, fs, history, calls, faults>>

(* execute_transfer *)

\* the rule ids a caller may pass as global_rule_override: none, a rule, a stale id
Overrides == {NoRule} \cup RuleIds \cup {"gone"}

ExecuteBegin ==
    /\ op.kind = "idle"
    /\ calls.execute < MaxExecutes
    /\ calls' = [calls EXCEPT !.execute = @ + 1]
    /\ \E override \in Overrides : op' = Locals("execute", override)
    /\ UNCHANGED <<recognizerVars, rules, engine, items, fs, history, ret, faults>>

\* lines 145-161: the item after the override rule, if found, was put on it
Overridden(item, override) ==
    IF override # NoRule /\ override \in DOMAIN rules
    THEN [item EXCEPT
            !.matched_rule_id   = rules[override].id,
            !.matched_rule_name = rules[override].name,
            !.target_path = PyStr(_substitute_path_template(rules[override].target_path, item))]
    ELSE item

Call(name, path, ok) == [call |-> name, path |-> path, ok |-> ok]

\* lines 163-222 for one item: what the pass does to the backend and what it
\* records.  lookup_raises: the override lookup raised; mkdir_ok, move_ok: the
\* backend carries the call out
transfer_item(item, lookup_raises, target_file_path, f, storage_type, mkdir_ok, move_ok) ==
    LET source_path == item.file_info.path
        target_dir  == PosixParent(target_file_path)
        f1 == Mkdir(f, target_dir)
        stage == IF lookup_raises THEN "SQLAlchemyError"
                 ELSE IF ~Truthy(item.target_path) THEN "No target path determined"
                 ELSE IF ~mkdir_ok \/ ~MkdirPossible(f, target_dir)
                      THEN "Failed to create directory"
                 ELSE IF ~move_ok \/ source_path \notin FilePaths(f1) THEN "Failed to move"
                 ELSE "ok"
    IN  [stage |-> stage,
         fs    |-> IF stage = "ok" THEN Move(f1, source_path, target_file_path)
                   ELSE IF stage # "Failed to move" THEN f
                   ELSE IF source_path \in FilePaths(f1)
                        THEN MoveFailed(f1, source_path, target_file_path)
                   ELSE f1,
         row   |-> IF stage = "ok"
                   THEN _record_transfer(item, source_path, target_file_path,
                                         storage_type, "completed", "")
                   ELSE _record_transfer(item, item.file_info.path,
                                         Or(item.target_path, PyStr(<<>>)).s,
                                         storage_type, "failed", stage),
         \* the path handed to adapter.move, if the pass got that far
         attempted |-> IF stage \in {"Failed to move", "ok"} THEN PyStr(target_file_path)
                       ELSE PyNone,
         log   |-> (IF stage \in {"SQLAlchemyError", "No target path determined"}
                    THEN <<>>
                    ELSE <<Call("mkdir", target_dir,
                                stage # "Failed to create directory")>>)
                   \o (IF stage \in {"Failed to move", "ok"}
                       THEN <<Call("move", target_file_path, stage = "ok")>>
                       ELSE <<>>)]

\* a counting that keeps no error entry for an item that failed
count_outcome_silent(o, item, stage) ==
    [o EXCEPT !.success_count = IF stage = "ok" THEN @ + 1 ELSE @,
              !.failed_count  = IF stage = "ok" THEN @ ELSE @ + 1]

\* lines 198 and 203-208: success_count, or failed_count and the error entry
count_outcome(o, item, stage) ==
    [o EXCEPT !.success_count = IF stage = "ok" THEN @ + 1 ELSE @,
              !.failed_count  = IF stage = "ok" THEN @ ELSE @ + 1,
              !.errors = IF stage = "ok" THEN @
                         ELSE Append(@, [file |-> item.file_info.name, error |-> stage])]

\* lines 163-172: the destination of an item that has a target path
target_file_path_of(item) ==
    _build_full_target_path(item.target_path.s, generate_names(item, ""),
        IF item.media_info.present THEN item.media_info.media_type ELSE "unknown")

\* one pass of the loop, lines 142-222
ExecuteItem ==
    /\ op.kind = "execute"
    /\ op.idx <= Len(items)
    /\ \E db_ok \in (IF op.override # NoRule THEN Fates ELSE {TRUE}) :
       \E item \in {IF op.override # NoRule /\ ~db_ok THEN items[op.idx]
                    ELSE Overridden(items[op.idx], op.override)} :
       \E target_file_path \in {target_file_path_of(item)} :
       \E mkdir_ok, move_ok \in (IF db_ok THEN Fates ELSE {TRUE}) :
       \E out \in {transfer_item(item, op.override # NoRule /\ ~db_ok, target_file_path,
                                 fs, op.storage_type, mkdir_ok, move_ok)} :
          /\ mkdir_ok \/ (move_ok /\ out.stage = "Failed to create directory")
          /\ move_ok \/ out.stage = "Failed to move"
          /\ faults' = IF db_ok /\ mkdir_ok /\ move_ok THEN faults ELSE faults + 1
          /\ items' = [items EXCEPT ![op.idx] = item]
          /\ fs' = out.fs
          /\ history' = Append(history, out.row @@ [call |-> "execute_transfer",
                                                    attempted |-> out.attempted])
          /\ op' = [count_outcome(op, item, out.stage) EXCEPT
                       !.idx = @ + 1,
                       !.log = @ \o out.log]
    /\ UNCHANGED <<recognizerVars, rules, engine, ret, calls>>

\* lines 224-237
ExecuteEnd ==
    /\ op.kind = "execute"
    /\ op.idx > Len(items)
    /\ ret' = [NoReturn EXCEPT
                  !.kind = "execute",
                  !.success = (op.failed_count = 0),
                  !.transferred_count = op.success_count,
                  !.failed_count = op.failed_count,
                  !.errors = op.errors,
                  !.first_row = op.first_row, !.last_row = Len(history)]
    /\ op' = Idle
    /\ UNCHANGED <<recognizerVars, rules, engine, items, fs, history, calls, faults>>

(* create_dry_run_report under a rule set that the management interface edits *)

InitDryRun == InitTransfer(FALSE)

NextDryRun ==
    \/ \E id \in RuleIds : update_rule(id)
    \/ DryRunBegin
    \/ DryRunItem
    \/ DryRunEnd

SpecDryRun == InitDryRun /\ [][NextDryRun]_vars

(* execute_transfer on the items of a dry-run report, scheduler/service.py 213-226 *)

Init == InitTransfer(TRUE)

Next ==
    \/ ExecuteBegin
    \/ ExecuteItem
    \/ ExecuteEnd

Spec == Init /\ [][Next]_vars

----------------------------------------------------------------------------
(* transfer_tv_series *)

\* line 268: the season an item is grouped under
SeasonKey(item) == IF item.media_info.present THEN item.media_info.season ELSE PyInt(1)

RECURSIVE GroupBySeason(_, _, _)
\* lines 266-271: the seasons dict in insertion order, each season with the
\* indexes of its items; k is the next item, acc the dict so far
GroupBySeason(its, k, acc) ==
    IF k > Len(its) THEN acc
    ELSE LET key == SeasonKey(its[k])
             at  == {g \in 1..Len(acc) : acc[g].season = key}
         IN  GroupBySeason(its, k + 1,
                 IF at = {} THEN Append(acc, [season |-> key, members |-> <<k>>])
                 ELSE [acc EXCEPT ![CHOOSE g \in at : TRUE].members = Append(@, k)])

\* lines 281-283: the season folder of a group, or the exception on the way
season_path_of(base, season_num, first) ==
    LET names == generate_names(first, "")
    IN  IF season_num.t # "int"
        THEN Raised("TypeError: unsupported format string passed to NoneType.__format__")
        ELSE IF names.folder_name = PyNone THEN Raised("KeyError: 'folder_name'")
        ELSE Returned(PosixJoin(<<base, names.folder_name.s,
                 IF names.season_folder # PyNone THEN names.season_folder.s
                 ELSE <<"S", "e", "a", "s", "o", "n", " ">> \o Pad2(season_num.i)>>))

\* the episodes an earlier import left in the season folder of show B
OldEpisode ==
    LET first == RecognitionResult(InboxFile(1),
                     MediaInfo("tv", <<"B">>, PyInt(2020), PyInt(1), PyInt(1), PyInt(7),
                               TMDB_Full), "high")
    IN  PosixJoin(<<season_path_of(Path_shows, PyInt(1), first).val,
                    <<"o", "l", "d", ".", "m", "k", "v">>>>)

\* the seasons recognition can put on an episode: none, specials, 1, 2
Seasons == {PyNone, PyInt(0), PyInt(1), PyInt(2)}

\* the batches of n recognized episodes of show B, or files not recognized
SeriesBatches(n) ==
    {[k \in 1..n |->
         IF s[k] = PyStr(<<>>) THEN RecognitionResult(InboxFile(k), NoMedia, "low")
         ELSE RecognitionResult(InboxFile(k),
                  MediaInfo("tv", <<"B">>, PyInt(2020), s[k], PyInt(k), PyInt(7), TMDB_Full),
                  "high")] :
        s \in [1..n -> Seasons \cup {PyStr(<<>>)}]}

InitSeries ==
    /\ rules = TransferRules
    /\ engine = EngineInit("off", RecognitionResult(File_A, NoMedia, "low"), "local")
    /\ \E n \in 0..MaxBatch : items \in SeriesBatches(n)
    /\ \E old \in SUBSET {<<OldEpisode, <<"o", "l", "d">>>>} :
          fs = [files |-> old \cup {<<items[k].file_info.path, items[k].file_info.name>> :
                                       k \in 1..Len(items)},
                dirs  |-> {Dir_inbox} \cup UNION {Ancestors(PosixParent(x[1])) : x \in old}]
    /\ history = <<>>
    /\ op = Idle
    /\ ret = NoReturn
    /\ calls = NoCalls
    /\ faults = 0
    /\ RecognizerUnused

\* lines 260-277: the early return for no items, or the grouping
SeriesBegin ==
    /\ op.kind = "idle"
    /\ calls.series < MaxSeriesCalls
    /\ calls' = [calls EXCEPT !.series = @ + 1]
    /\ IF items = <<>>
       THEN /\ ret' = [NoReturn EXCEPT !.kind = "series", !.first_row = Len(history) + 1,
                                       !.last_row = Len(history)]
            /\ op' = op
       ELSE /\ op' = [Locals("series", NoRule) EXCEPT
                         !.groups = GroupBySeason(items, 1, <<>>), !.gidx = 1,
                         !.base = Path_shows]
            /\ ret' = ret
    /\ UNCHANGED <<recognizerVars, rules, engine, items, fs, history, faults>>

\* lines 279-292 and 313-317 for one season: exists, delete and mkdir of the season
\* folder.  fault: the backend call that fails, if any
prepare_season(f, path, fault) ==
    LET existed == Exists(f, path.val)
        f1 == IF existed THEN Delete(f, path.val) ELSE f
        stage == IF path.exc # "" THEN path.exc
                 ELSE IF existed /\ fault = "delete" THEN "Failed to delete"
                 ELSE IF fault = "mkdir" \/ ~MkdirPossible(f1, path.val)
                      THEN "Failed to create directory"
                 ELSE "ok"
    IN  [stage |-> stage,
         fs    |-> IF stage = "ok" THEN Mkdir(f1, path.val)
                   ELSE IF stage = "Failed to create directory" THEN f1
                   ELSE f,
         log   |-> IF path.exc # "" THEN <<>>
                   ELSE <<Call("exists", path.val, existed)>>
                        \o (IF existed THEN <<Call("delete", path.val, stage # "Failed to delete")>>
                            ELSE <<>>)
                        \o (IF stage \in {"ok", "Failed to create directory"}
                            THEN <<Call("mkdir", path.val, stage = "ok")>>
                            ELSE <<>>)]

\* the faults the backend can answer the season-level calls with
SeasonFaults == IF faults < MaxFaults THEN {"none", "delete", "mkdir"} ELSE {"none"}

\* the head of a pass of the season loop, lines 279-292; lines 313-317 if it raises
SeriesSeason ==
    /\ op.kind = "series"
    /\ op.gidx <= Len(op.groups)
    /\ op.eidx = 0
    /\ \E fault \in SeasonFaults :
       \E group \in {op.groups[op.gidx]} :
       \E path \in {season_path_of(op.base, group.season, items[group.members[1]])} :
       \E out \in {prepare_season(fs, path, fault)} :
          /\ fault = "none" \/ out.stage = (IF fault = "delete" THEN "Failed to delete"
                                            ELSE "Failed to create directory")
          /\ faults' = IF fault = "none" THEN faults ELSE faults + 1
          /\ fs' = out.fs
          /\ op' = IF out.stage = "ok"
                   THEN [op EXCEPT !.eidx = 1, !.season_path = path.val,
                                   !.gstart = Len(op.log) + 1, !.log = @ \o out.log]
                   ELSE [op EXCEPT
                            !.gidx = @ + 1,
                            !.gstart = Len(op.log) + 1,
                            !.log = @ \o out.log,
                            !.failed_count = @ + Len(group.members),
                            !.errors = @ \o [j \in 1..Len(group.members) |->
                                [file  |-> items[group.members[j]].file_info.name,
                                 error |-> out.stage]]]
    /\ UNCHANGED <<recognizerVars, rules, engine, items, history, ret, calls>>

\* one pass of the episode loop, lines 295-311
SeriesEpisode ==
    /\ op.kind = "series"
    /\ op.gidx <= Len(op.groups)
    /\ op.eidx >= 1
    /\ \E move_ok \in Fates :
       \E group \in {op.groups[op.gidx]} :
       \E item \in {items[group.members[op.eidx]]} :
       \E target_file_path \in {PosixJoin(<<op.season_path,
                                            generate_names(item, "").file_name.s>>)} :
          LET source_path == item.file_info.path
              moved == move_ok /\ source_path \in FilePaths(fs)
              next  == IF op.eidx < Len(group.members)
                       THEN [op EXCEPT !.eidx = @ + 1]
                       ELSE [op EXCEPT !.eidx = 0, !.gidx = @ + 1]
          IN  /\ ~move_ok => source_path \in FilePaths(fs)
              /\ faults' = IF move_ok THEN faults ELSE faults + 1
              /\ fs' = IF moved THEN Move(fs, source_path, target_file_path)
                       ELSE IF source_path \in FilePaths(fs)
                            THEN MoveFailed(fs, source_path, target_file_path)
                       ELSE fs
              /\ history' =
                    IF moved
                    THEN Append(history,
                             _record_transfer(item, source_path, target_file_path,
                                              op.storage_type, "completed", "")
                             @@ [call |-> "transfer_tv_series",
                                 attempted |-> PyStr(target_file_path)])
                    ELSE history
              /\ op' = [next EXCEPT
                           !.log = @ \o <<Call("move", target_file_path, moved)>>,
                           !.success_count = IF moved THEN @ + 1 ELSE @,
                           !.failed_count  = IF moved THEN @ ELSE @ + 1,
                           !.errors = IF moved THEN @
                                      ELSE Append(@, [file  |-> item.file_info.name,
                                                      error |-> "Failed to move"])]
    /\ UNCHANGED <<recognizerVars, rules, engine, items, ret, calls>>

\* lines 319-324
SeriesEnd ==
    /\ op.kind = "series"
    /\ op.gidx > Len(op.groups)
    /\ ret' = [NoReturn EXCEPT
                  !.kind = "series",
                  !.success = (op.failed_count = 0),
                  !.transferred_count = op.success_count,
                  !.failed_count = op.failed_count,
                  !.errors = op.errors,
                  !.first_row = op.first_row, !.last_row = Len(history)]
    /\ op' = Idle
    /\ UNCHANGED <<recognizerVars, rules, engine, items, fs, history, calls, faults>>

NextSeries ==
    \/ SeriesBegin
    \/ SeriesSeason
    \/ SeriesEpisode
    \/ SeriesEnd

SpecSeries == InitSeries /\ [][NextSeries]_vars

----------------------------------------------------------------------------
(* The rule engine on its own: one condition, or one match_rule call *)

InitRules ==
    /\ \/ /\ rules \in RuleTables(RuleIds)
          /\ engine \in {EngineInit("match", r, st) : r \in MatchResults, st \in StorageTypes}
       \/ /\ rules = <<>>
          /\ engine \in {EngineInit("condition", r, "local") : r \in ConditionResults}
    /\ TransferUnused
    /\ RecognizerUnused

EvaluateCondition ==
    /\ engine.mode = "condition"
    /\ engine.phase = "init"
    /\ \E c \in Conditions :
          engine' = [engine EXCEPT !.phase = "evaluated", !.condition = c,
                                   !.outcome = _evaluate_condition(c, engine.result)]
    /\ UNCHANGED <<recognizerVars, rules, transferVars>>

MatchRule ==
    /\ engine.mode = "match"
    /\ engine.phase = "init"
    /\ \E db_ok \in BOOLEAN :
       \E o \in match_rule(engine.result, engine.storage_type, rules, db_ok) :
          engine' = [engine EXCEPT !.phase = "matched", !.db_ok = db_ok, !.matched = o]
    /\ UNCHANGED <<recognizerVars, rules, transferVars>>

NextRules == EvaluateCondition \/ MatchRule

SpecRules == InitRules /\ [][NextRules]_vars

InitConditions ==
    /\ TransferUnused
    /\ RecognizerUnused
    /\ rules = <<>>
    /\ engine \in {EngineInit("condition", r, "local") : r \in ConditionResults}

NextConditions == EvaluateCondition

SpecConditions == InitConditions /\ [][NextConditions]_vars

----------------------------------------------------------------------------
(* Rule engine: properties *)

\* a rule qualifies: enabled, both filters fit, every condition is true
Qualifies(rule, result, storage_type) ==
    /\ rule.enabled
    /\ rule.media_type = result.media_info.media_type \/ rule.media_type = "all"
    /\ rule.storage_type = storage_type \/ rule.storage_type = "all"
    /\ \A k \in 1..Len(rule.conditions) :
          _evaluate_condition(rule.conditions[k], result) = Returned(TRUE)

Qualifying == {id \in DOMAIN rules : Qualifies(rules[id], engine.result, engine.storage_type)}

MatchReturned ==
    /\ engine.mode = "match"
    /\ engine.phase = "matched"
    /\ engine.db_ok

\* C6: for a result with media info, match_rule returns a qualifying rule of
\* the lowest priority number among the qualifying rules, and returns no rule
\* exactly when no rule qualifies.
C6_MatchRuleSelectsLowestPriority ==
    (MatchReturned /\ engine.result.media_info.present) =>
        /\ engine.matched.exc = ""
        /\ (engine.matched.val = NoRule) <=> (Qualifying = {})
        /\ engine.matched.val # NoRule =>
              /\ engine.matched.val \in Qualifying
              /\ \A q \in Qualifying :
                    rules[engine.matched.val].priority <= rules[q].priority

\* two rules of priorities 10 and 20 both qualify and the priority-10 rule is returned
C6_Witness ==
    /\ MatchReturned
    /\ engine.result.media_info.present
    /\ Qualifying = RuleIds
    /\ {rules[id].priority : id \in RuleIds} = {10, 20}
    /\ rules[engine.matched.val].priority = 10

NonNumeric(v) == Float(v).exc # ""

\* the conditions C7 is about, for a field that resolved to field_value
InvalidCondition(condition, field_value) ==
    \/ /\ condition.operator = "matches"
       /\ ~ValidRegex(Str(condition.value))
    \/ /\ condition.operator \in {"gte", "lte"}
       /\ NonNumeric(field_value) \/ NonNumeric(condition.value)
    \/ /\ condition.operator = "between"
       /\ \/ condition.value.t # "list"
          \/ Len(condition.value.l) # 2
          \/ NonNumeric(field_value)
          \/ \E k \in 1..Len(condition.value.l) : NonNumeric(condition.value.l[k])

\* what the result holds for a field, read off the result itself
FieldData(field, result) ==
    LET m == result.media_info
    IN  CASE field = "genre"    -> IF m.present /\ m.tmdb_info.present
                                   THEN m.tmdb_info.genre_ids ELSE PyNone
          [] field = "country"  -> IF m.present /\ m.tmdb_info.present
                                   THEN m.tmdb_info.origin_country ELSE PyNone
          [] field = "language" -> IF m.present /\ m.tmdb_info.present
                                   THEN m.tmdb_info.original_language ELSE PyNone
          [] field \in {"year", "year_range"} -> IF m.present THEN m.year ELSE PyNone
          [] field = "keyword"  -> PyStr(result.file_info.name)
          [] OTHER -> PyNone

\* C7: rule conditions fail closed.  A 'matches' condition with an invalid
\* regular expression and a 'between', 'gte' or 'lte' condition with a
\* non-numeric field value or operand (or a 'between' value that is no
\* two-element list) evaluate to false, for scalar and for list field values;
\* no condition evaluation raises, and match_rule does not raise on a rule
\* that holds such a condition but goes on to the remaining rules.
C7_ConditionsFailClosed ==
    /\ engine.phase = "evaluated" =>
          /\ engine.outcome.exc = ""
          /\ InvalidCondition(engine.condition,
                              _get_field_value(engine.condition.field, engine.result))
                => engine.outcome = Returned(FALSE)
    /\ MatchReturned =>
          /\ engine.matched.exc = ""
          /\ (engine.result.media_info.present /\ Qualifying # {})
                => engine.matched.val \in Qualifying

\* an invalid regular expression against a list field value with entries
C7_Witness ==
    /\ engine.phase = "evaluated"
    /\ engine.condition.operator = "matches"
    /\ ~ValidRegex(Str(engine.condition.value))
    /\ engine.condition.field = "genre"
    /\ FieldData("genre", engine.result).l # <<>>
    /\ engine.outcome = Returned(FALSE)

\* the field has no resolved value for the result
Unresolved(field, result) ==
    \/ field \notin {"genre", "country", "language", "year", "year_range", "keyword"}
    \/ FieldData(field, result) = PyNone
    \/ field \in {"genre", "country"} /\ FieldData(field, result) = PyList(<<>>)

\* C8: a condition whose field has no resolved value for the result
\* evaluates to false under every operator and every condition value.
C8_UnresolvedFieldNeverMatches ==
    (engine.phase = "evaluated" /\ Unresolved(engine.condition.field, engine.result))
        => engine.outcome = Returned(FALSE)

----------------------------------------------------------------------------
(* Transfer service: properties of execute_transfer *)

\* the history rows the last execute_transfer call added
RowsOfCall == SubSeq(history, ret.first_row, ret.last_row)

\* the error entries a call reported for the file of item k
ErrorsFor(errors, k) ==
    {j \in 1..Len(errors) : errors[j].file = items[k].file_info.name}

\* C1: execute_transfer processes every item whatever fails on the way (no
\* target path, directory creation, move): transferred_count + failed_count is
\* the number of items, every failed item has exactly one (file, error) entry
\* and no other item has one, and success is reported only when nothing failed.
C1_EveryItemProcessed ==
    /\ op.kind = "execute" =>
          /\ op.success_count + op.failed_count = op.idx - 1
          /\ Len(op.errors) = op.failed_count
    /\ ret.kind = "execute" =>
          /\ ret.transferred_count + ret.failed_count = Len(items)
          /\ ret.success <=> (ret.failed_count = 0)
          /\ Len(ret.errors) = ret.failed_count
          /\ Len(RowsOfCall) = Len(items)
          /\ \A k \in 1..Len(items) :
                /\ RowsOfCall[k].source_path = items[k].file_info.path
                /\ Cardinality(ErrorsFor(ret.errors, k)) =
                      IF RowsOfCall[k].status = "failed" THEN 1 ELSE 0
                /\ \A j \in ErrorsFor(ret.errors, k) :
                      ret.errors[j].error = RowsOfCall[k].error_message

\* a call over two items returned: one had no target path, the move of the other failed
C1_Witness ==
    /\ ret.kind = "execute"
    /\ Len(items) = 2
    /\ ret.failed_count = 2
    /\ {ret.errors[j].error : j \in 1..2} = {"No target path determined", "Failed to move"}

\* C2: a result whose media_info is absent never has matched_rule_id,
\* matched_rule_name or target_path set, a global rule override included.
C2_NoMediaInfoNoRouting ==
    \A k \in 1..Len(items) :
        ~items[k].media_info.present =>
            /\ items[k].matched_rule_id = NoRule
            /\ items[k].matched_rule_name = NoName
            /\ items[k].target_path = PyNone

\* C3: every history row execute_transfer writes, completed or failed, carries
\* as target_path the full destination file path last handed to adapter.move,
\* never another, a shorter or an empty one.
C3_HistoryTargetIsAttemptedPath ==
    \A k \in 1..Len(history) :
        history[k].call = "execute_transfer" =>
            /\ history[k].target_path # <<>>
            /\ history[k].attempted # PyNone =>
                  history[k].target_path = history[k].attempted.s

----------------------------------------------------------------------------
(* Transfer service: properties of create_dry_run_report *)

\* the routing decision of a result is blank
NoRouting(result) ==
    /\ result.matched_rule_id = NoRule
    /\ result.matched_rule_name = NoName
    /\ result.target_path = PyNone
    /\ result.target_folder_name = PyNone
    /\ result.target_file_name = PyNone

\* a result with its routing decision blanked
Unrouted(result) ==
    [result EXCEPT !.matched_rule_id = NoRule, !.matched_rule_name = NoName,
                   !.target_path = PyNone, !.target_folder_name = PyNone,
                   !.target_file_name = PyNone]

\* this step is a pass of the dry-run loop that ended without an exception
DryRunPass ==
    /\ op.kind = "dry_run"
    /\ op'.kind = "dry_run"
    /\ op'.idx = op.idx + 1
    /\ op'.errors = op.errors

\* C9: once create_dry_run_report has gone over an item that no rule matches,
\* the item has no routing decision (rule id and name, target path, folder
\* and file name are null), whatever it carried when the call began.
C9_UnmatchedItemHasNoRouting ==
    [][(/\ DryRunPass
        /\ match_rule(items[op.idx], op.storage_type, rules, TRUE) = {Returned(NoRule)})
       => NoRouting(items'[op.idx])]_vars

\* C10: create_dry_run_report does nothing to the storage backend, the history
\* or the rules and changes nothing of a result but its routing fields; its
\* report has items + errors = total_items and high + medium + low = items.
C10_DryRunIsPure ==
    /\ [](ret.kind = "dry_run" =>
            /\ ret.total_items = Len(ret.items) + Len(ret.errors)
            /\ ret.high + ret.medium + ret.low = Len(ret.items))
    /\ [][(op.kind = "dry_run" \/ op'.kind = "dry_run") =>
            /\ UNCHANGED <<fs, history, rules>>
            /\ Len(items') = Len(items)
            /\ \A k \in 1..Len(items) : Unrouted(items'[k]) = Unrouted(items[k])]_vars

\* a report over two results: one was routed, the rule lookup of the other failed
C10_Witness ==
    /\ ret.kind = "dry_run"
    /\ ret.total_items = 2
    /\ Len(ret.errors) = 1
    /\ Len(ret.items) = 1
    /\ items[ret.items[1]].target_path # PyNone
    /\ ret.medium = 1

----------------------------------------------------------------------------
(* Transfer service: properties of transfer_tv_series and of the history *)

\* the moves among the adapter calls of a log
Moves(log) == {j \in 1..Len(log) : log[j].call = "move"}

\* C4: the history is append-only with one row per attempted move: a step in
\* which execute_transfer or transfer_tv_series attempts a move, whether the
\* move succeeds or fails, adds exactly one row, and no step changes or
\* removes a row that is there.
C4_OneRowPerAttemptedMove ==
    [][/\ Len(history') >= Len(history)
       /\ SubSeq(history', 1, Len(history)) = history
       /\ Cardinality(Moves(op'.log)) > Cardinality(Moves(op.log)) =>
             Len(history') = Len(history) + 1]_vars

\* transfer_tv_series stands between two season groups, or behind the last
GroupDone == op.kind = "series" /\ op.eidx = 0 /\ op.gidx > 1

\* the adapter calls made for the season group that was done last
GroupCalls == SubSeq(op.log, op.gstart, Len(op.log))

\* C5: for each season group transfer_tv_series deletes the season folder
\* recursively if it exists, then creates it, then moves the episodes of the
\* group one by one, in that order; when the group is done the folder holds
\* only episodes this call moved and nothing that was in it before.  Stated
\* for the calls in which the storage backend fails nothing.
C5_SeasonOverwrittenInOrder ==
    (GroupDone /\ faults = 0) =>
        LET group == op.groups[op.gidx - 1]
            n     == Len(group.members)
            moved == {op.log[j].path : j \in {i \in Moves(op.log) : op.log[i].ok}}
        IN  /\ GroupCalls # <<>>
            /\ GroupCalls[1].call = "exists"
            /\ LET head == IF GroupCalls[1].ok THEN <<"exists", "delete", "mkdir">>
                           ELSE <<"exists", "mkdir">>
               IN  /\ [j \in 1..Len(GroupCalls) |-> GroupCalls[j].call]
                         = head \o [j \in 1..n |-> "move"]
                   /\ \A j \in 1..Len(head) :
                         /\ GroupCalls[j].path = GroupCalls[1].path
                         /\ j > 1 => GroupCalls[j].ok
            /\ \A x \in Contents(fs, GroupCalls[1].path) : x[1] \in moved

----------------------------------------------------------------------------
(* LLM agent: ExtractedMediaInfo, _parse_response, extract *)

MaxNames == 2
MaxTasks == 2
MaxClock == 4

NoFilename == "<None>"
NoTitle == <<>>

\* the hints the model follows: the filename and one extracted field
ExtractedMediaInfo(filename, title_en) == [filename |-> filename, title_en |-> title_en]

EmptyInfos(names) == [k \in 1..Len(names) |-> ExtractedMediaInfo(names[k], NoTitle)]

\* lines 138-165: the loop over the parsed items, from the i-th on;
\* acc.found holds the names whose filename_map entry is no longer None
RECURSIVE ParseItems(_, _, _, _)
ParseItems(parsed_data, filenames, i, acc) ==
    IF i > Len(parsed_data) THEN acc
    ELSE LET item == parsed_data[i]
             filename == IF item.filename # NoFilename THEN item.filename
                         ELSE IF i <= Len(filenames) THEN filenames[i] ELSE NoFilename
         IN  IF ~item.dict \/ filename = NoFilename \/ filename \notin Range(filenames)
             THEN ParseItems(parsed_data, filenames, i + 1, acc)
             ELSE ParseItems(parsed_data, filenames, i + 1,
                             [results |-> Append(acc.results,
                                                 ExtractedMediaInfo(filename, item.title_en)),
                              found   |-> acc.found \cup {filename}])

\* lines 167-170: an empty result for every key of filename_map still None
RECURSIVE MissingInfos(_, _, _)
MissingInfos(filenames, k, found) ==
    IF k > Len(filenames) THEN <<>>
    ELSE IF filenames[k] \in found \/ \E j \in 1..(k - 1) : filenames[j] = filenames[k]
         THEN MissingInfos(filenames, k + 1, found)
         ELSE <<ExtractedMediaInfo(filenames[k], NoTitle)>>
                  \o MissingInfos(filenames, k + 1, found)

\* lines 115-180; response.json: "none" no bracket pair, "bad" not JSON, "ok" a list
_parse_response(response, filenames) ==
    IF response.json # "ok" THEN EmptyInfos(filenames)
    ELSE LET acc == ParseItems(response.items, filenames, 1,
                               [results |-> <<>>, found |-> {}])
         IN  acc.results \o MissingInfos(filenames, 1, acc.found)

\* lines 266-270: the last result of each name, in input order
ordered_results(all_results, filenames) ==
    [k \in 1..Len(filenames) |->
        IF \E j \in 1..Len(all_results) : all_results[j].filename = filenames[k]
        THEN all_results[CHOOSE j \in 1..Len(all_results) :
                            /\ all_results[j].filename = filenames[k]
                            /\ \A h \in (j + 1)..Len(all_results) :
                                  all_results[h].filename # filenames[k]]
        ELSE ExtractedMediaInfo(filenames[k], NoTitle)]

\* lines 222-223: the batch that starts at the i-th filename
BatchAt(filenames, i, batch_size) ==
    SubSeq(filenames, i, IF i + batch_size - 1 < Len(filenames)
                         THEN i + batch_size - 1 ELSE Len(filenames))

\* lines 229-263: the results of one batch, the provider call raising or answering
batch_results_of(outcome, batch) ==
    IF outcome.kind = "raise" THEN EmptyInfos(batch)
    ELSE _parse_response(outcome, batch)

----------------------------------------------------------------------------
(* LLM agent: inputs *)

FileNames == {"a", "b"}

FilenameLists == UNION {[1..n -> FileNames] : n \in 0..MaxNames}

\* batch sizes that cut the longest list into two batches, or into one
BatchSizes == (MaxNames - 1)..MaxNames

\* the n-th response of a call: its k-th item carries the title <<n, k>>
ResponseItems(n, len) ==
    {[k \in 1..len |-> [dict |-> f[k] # "str", filename |-> IF f[k] = "str" THEN NoFilename ELSE f[k],
                        title_en |-> <<n, k>>]] :
        f \in [1..len -> FileNames \cup {NoFilename, "str"}]}

\* what the provider can do with the n-th batch of a call
ProviderOutcomes(n, batch) ==
    {[kind |-> "raise", json |-> "none", items |-> <<>>],
     [kind |-> "text", json |-> "none", items |-> <<>>],
     [kind |-> "text", json |-> "bad", items |-> <<>>]}
    \cup UNION {{[kind |-> "text", json |-> "ok", items |-> parsed_data] :
                    parsed_data \in ResponseItems(n, len)} : len \in 0..(Len(batch) + 1)}

\* concurrent calls: the provider answers or fails, the content plays no part
PlainOutcomes(n, batch) ==
    {[kind |-> "raise", json |-> "none", items |-> <<>>],
     [kind |-> "text", json |-> "ok", items |-> <<>>]}

----------------------------------------------------------------------------
(* LLM agent: state and steps of extract *)

NoTask == [pc |-> "idle", filenames |-> <<>>, i |-> 0, all_results |-> <<>>,
           outcomes |-> <<>>, wake |-> 0, ret |-> <<>>]

\* lines 69-103: the agent after construction
LLMAgent(api_key, batch_size, min_interval) ==
    [api_key |-> api_key, batch_size |-> batch_size, _min_interval |-> min_interval,
     _last_request_time |-> 0, requests |-> <<>>]

InitLLM(ntasks, batch_sizes) ==
    /\ rules = <<>>
    /\ engine = EngineInit("off", RecognitionResult(File_A, NoMedia, "low"), "local")
    /\ TransferUnused
    /\ clock = 2
    /\ \E api_key \in BOOLEAN, batch_size \in batch_sizes, min_interval \in {1, 2} :
          llm = LLMAgent(api_key, batch_size, min_interval)
    /\ tmdb = <<>>
    /\ tasks = [t \in 1..ntasks |-> NoTask]
    /\ cache = <<>>

\* time passes
Tick(limit) ==
    /\ clock < limit
    /\ clock' = clock + 1
    /\ UNCHANGED <<rules, engine, transferVars, llm, tmdb, tasks, cache>>

\* lines 210-219: the early returns, or the first batch
ExtractBegin(t, filenames) ==
    /\ tasks[t].pc = "idle"
    /\ tasks' = [tasks EXCEPT ![t] =
          IF filenames = <<>> THEN [@ EXCEPT !.pc = "done", !.ret = <<>>]
          ELSE IF ~llm.api_key
               THEN [@ EXCEPT !.pc = "done", !.filenames = filenames,
                              !.ret = EmptyInfos(filenames)]
               ELSE [@ EXCEPT !.pc = "batch", !.filenames = filenames, !.i = 1]]
    /\ UNCHANGED <<rules, engine, transferVars, clock, llm, tmdb, cache>>

\* lines 113, 232-251: the limiter notes the time and the request goes out
SendBatch(t) ==
    /\ llm' = [llm EXCEPT !._last_request_time = clock,
                          !.requests = Append(@, [time |-> clock, task |-> t,
                                                  i |-> tasks[t].i])]
    /\ tasks' = [tasks EXCEPT ![t].pc = "create"]

\* lines 107-113: the limiter reads the time; early, the coroutine goes to sleep
WaitForRateLimit(t) ==
    /\ tasks[t].pc = "batch"
    /\ LET elapsed == clock - llm._last_request_time
       IN  IF elapsed < llm._min_interval
           THEN /\ tasks' = [tasks EXCEPT ![t].pc = "sleep",
                                          ![t].wake = clock + (llm._min_interval - elapsed)]
                /\ llm' = llm
           ELSE SendBatch(t)
    /\ UNCHANGED <<rules, engine, transferVars, clock, tmdb, cache>>

\* lines 112-113: asyncio.sleep is over
Wake(t) ==
    /\ tasks[t].pc = "sleep"
    /\ clock >= tasks[t].wake
    /\ SendBatch(t)
    /\ UNCHANGED <<rules, engine, transferVars, clock, tmdb, cache>>

\* the provider call is over, a failed batch ending the call
Completion_aborting(t, detailed) ==
    /\ tasks[t].pc = "create"
    /\ \E batch \in {BatchAt(tasks[t].filenames, tasks[t].i, llm.batch_size)} :
       \E outcome \in IF detailed
                      THEN ProviderOutcomes(Len(tasks[t].outcomes) + 1, batch)
                      ELSE PlainOutcomes(Len(tasks[t].outcomes) + 1, batch) :
       \E all_results \in {tasks[t].all_results \o batch_results_of(outcome, batch)} :
          tasks' = [tasks EXCEPT ![t] =
             IF /\ tasks[t].i + llm.batch_size <= Len(tasks[t].filenames)
                /\ outcome.kind = "text" /\ outcome.json = "ok"
             THEN [@ EXCEPT !.pc = "batch", !.i = @ + llm.batch_size,
                            !.all_results = all_results,
                            !.outcomes = Append(@, outcome)]
             ELSE [@ EXCEPT !.pc = "done", !.all_results = all_results,
                            !.outcomes = Append(@, outcome),
                            !.ret = ordered_results(all_results, tasks[t].filenames)]]
    /\ UNCHANGED <<rules, engine, transferVars, clock, llm, tmdb, cache>>

\* lines 244-273: the provider call is over; the next batch, or the ordered results
Completion(t, detailed) ==
    /\ tasks[t].pc = "create"
    /\ \E batch \in {BatchAt(tasks[t].filenames, tasks[t].i, llm.batch_size)} :
       \E outcome \in IF detailed
                      THEN ProviderOutcomes(Len(tasks[t].outcomes) + 1, batch)
                      ELSE PlainOutcomes(Len(tasks[t].outcomes) + 1, batch) :
       \E all_results \in {tasks[t].all_results \o batch_results_of(outcome, batch)} :
          tasks' = [tasks EXCEPT ![t] =
             IF tasks[t].i + llm.batch_size <= Len(tasks[t].filenames)
             THEN [@ EXCEPT !.pc = "batch", !.i = @ + llm.batch_size,
                            !.all_results = all_results,
                            !.outcomes = Append(@, outcome)]
             ELSE [@ EXCEPT !.pc = "done", !.all_results = all_results,
                            !.outcomes = Append(@, outcome),
                            !.ret = ordered_results(all_results, tasks[t].filenames)]]
    /\ UNCHANGED <<rules, engine, transferVars, clock, llm, tmdb, cache>>

\* one extract call over every list of names, every response
InitExtract == InitLLM(1, BatchSizes)

NextExtract ==
    \/ Tick(MaxClock)
    \/ \E filenames \in FilenameLists : ExtractBegin(1, filenames)
    \/ WaitForRateLimit(1)
    \/ Wake(1)
    \/ Completion(1, TRUE)

SpecExtract == InitExtract /\ [][NextExtract]_vars

\* concurrent extract calls of one batch or two on one agent
InitExtractConcurrent == InitLLM(MaxTasks, {1})

NextExtractConcurrent ==
    \/ Tick(MaxClock)
    \/ \E t \in DOMAIN tasks, filenames \in {<<"a">>, <<"a", "b">>} :
          ExtractBegin(t, filenames)
    \/ \E t \in DOMAIN tasks : WaitForRateLimit(t)
    \/ \E t \in DOMAIN tasks : Wake(t)
    \/ \E t \in DOMAIN tasks : Completion(t, FALSE)

SpecExtractConcurrent == InitExtractConcurrent /\ [][NextExtractConcurrent]_vars

----------------------------------------------------------------------------
(* LLM agent: properties *)

ExtractDone(t) == tasks[t].pc = "done" /\ tasks[t].filenames # <<>>

\* the first filename of the n-th batch of a call
BatchStart(n) == (n - 1) * llm.batch_size + 1

\* the n-th batch of the call of task t
BatchOf(t, n) == BatchAt(tasks[t].filenames, BatchStart(n), llm.batch_size)

\* the response items that name f, as <<batch, position>>, among the parsed responses
\* to batches that hold f
Naming(t, f) ==
    {<<n, k>> \in (1..Len(tasks[t].outcomes)) \X (1..(MaxNames + 2)) :
        /\ tasks[t].outcomes[n].kind = "text"
        /\ tasks[t].outcomes[n].json = "ok"
        /\ k <= Len(tasks[t].outcomes[n].items)
        /\ tasks[t].outcomes[n].items[k].dict
        /\ tasks[t].outcomes[n].items[k].filename = f
        /\ f \in Range(BatchOf(t, n))}

\* C11: extract returns one hints object per input filename, in input order, and
\* where exactly one response item names a filename that occurs once in the input,
\* the hints at its position are those of that item
C11_HintsAreThoseOfTheNamingItem ==
    \A t \in DOMAIN tasks :
        ExtractDone(t) /\ llm.api_key =>
            /\ Len(tasks[t].ret) = Len(tasks[t].filenames)
            /\ \A i \in 1..Len(tasks[t].filenames) :
                  /\ tasks[t].ret[i].filename = tasks[t].filenames[i]
                  /\ \A x \in Naming(t, tasks[t].filenames[i]) :
                        (/\ Naming(t, tasks[t].filenames[i]) = {x}
                         /\ \A j \in 1..Len(tasks[t].filenames) :
                               tasks[t].filenames[j] = tasks[t].filenames[i] => j = i)
                        => tasks[t].ret[i].title_en = x

\* the order and the filenames alone
C11_OrderAndNames ==
    \A t \in DOMAIN tasks :
        ExtractDone(t) =>
            /\ Len(tasks[t].ret) = Len(tasks[t].filenames)
            /\ \A i \in 1..Len(tasks[t].filenames) :
                  tasks[t].ret[i].filename = tasks[t].filenames[i]

\* the batches of the call of task t
NBatches(t) == (Len(tasks[t].filenames) + llm.batch_size - 1) \div llm.batch_size

\* the provider call or the parsing of the n-th batch failed
BatchFailed(t, n) ==
    tasks[t].outcomes[n].kind = "raise" \/ tasks[t].outcomes[n].json # "ok"

\* the batches that hold the i-th filename of the call
BatchesHolding(t, i) ==
    {n \in 1..NBatches(t) : tasks[t].filenames[i] \in Range(BatchOf(t, n))}

C13_RequestsSpacedApart ==
    \A r \in 2..Len(llm.requests) :
        llm.requests[r].time - llm.requests[r - 1].time >= llm._min_interval

\* two requests have gone out, from one call or from two
C13_TwoRequestsSent == Len(llm.requests) >= 2

----------------------------------------------------------------------------
(* TMDB client: the limiter, _request, search_with_languages, find_best_match *)

RetryAfterDefault == 10

MaxThrottles == 2

NoLanguage == "<None>"
NoHeader == <<"<None>">>

\* json of a response, or None: the number of results is what the model follows
NoData == [none |-> TRUE, results |-> 0]
Data(n) == [none |-> FALSE, results |-> n]

Request(endpoint, year, language) ==
    [endpoint |-> endpoint, year |-> year, language |-> language]

NoRequest ==
    [pc |-> "idle", call |-> "", req |-> Request("", 0, NoLanguage), wake |-> 0,
     responses |-> <<>>, heard |-> 0, ret |-> NoData, year |-> 0, search_year |-> 0, lang_idx |-> 0,
     results |-> 0, lang |-> NoLanguage]

\* lines 85-91: the client after construction
TMDBClient(languages, min_interval) ==
    [languages |-> languages, _min_interval |-> min_interval, _last_request_time |-> 0,
     _lock |-> 0, waiters |-> <<>>, requests |-> <<>>]

\* lines 128-136: the parameters that go out; no language given, the first configured one
request_params(req) ==
    [endpoint |-> req.endpoint, year |-> req.year,
     language |-> IF req.language # NoLanguage THEN req.language
                  ELSE IF tmdb.languages # <<>> THEN tmdb.languages[1]
                  ELSE NoLanguage]

\* the limiter with no lock
LockFree_unlocked == TRUE

\* asyncio.Lock.acquire returns at once: unlocked and nobody queued
LockFree == tmdb._lock = 0 /\ tmdb.waiters = <<>>

\* lines 110-116, 127-139 with the lock taken: the time is read; early, the coroutine
\* sleeps with the lock; in time, it stamps the time, frees the lock and sends
Limited(t, task, waiters) ==
    LET elapsed == clock - tmdb._last_request_time
    IN  IF elapsed < tmdb._min_interval
        THEN [task |-> [task EXCEPT !.pc = "sleep",
                                    !.wake = clock + (tmdb._min_interval - elapsed)],
              tmdb |-> [tmdb EXCEPT !._lock = t, !.waiters = waiters]]
        ELSE [task |-> [task EXCEPT !.pc = "http"],
              tmdb |-> [tmdb EXCEPT
                           !._last_request_time = clock, !._lock = 0, !.waiters = waiters,
                           !.requests = Append(@, [time |-> clock, task |-> t,
                                                   params |-> request_params(task.req)])]]

\* lines 107-109, 125: _request enters the limiter, or queues for its lock
_wait_for_rate_limit(t, task) ==
    IF LockFree THEN Limited(t, task, tmdb.waiters)
    ELSE [task |-> [task EXCEPT !.pc = "lock"],
          tmdb |-> [tmdb EXCEPT !.waiters = Append(@, t)]]

\* int(response.headers.get("Retry-After", 10)) of line 143
retry_after_of(header) ==
    IF header = NoHeader THEN Returned(RetryAfterDefault)
    ELSE IF header # <<>> /\ Range(header) \subseteq DigitChars
         THEN Returned(DigitsVal(header))
         ELSE Raised("ValueError")

\* lines 139-156: what _request does with a response; status 0 is a transport error
after_response(task, response) ==
    LET heard == [task EXCEPT !.responses = Append(@, [status |-> response.status,
                                                       retry_after |-> response.retry_after,
                                                       results |-> response.results]),
                              !.heard = clock]
    IN  IF response.status = 429
        THEN IF retry_after_of(response.retry_after).exc = ""
             THEN [heard EXCEPT !.pc = "backoff",
                                !.wake = clock + retry_after_of(response.retry_after).val]
             ELSE [heard EXCEPT !.pc = "returned", !.ret = NoData]
        ELSE IF response.status = 200
             THEN [heard EXCEPT !.pc = "returned", !.ret = Data(response.results)]
             ELSE [heard EXCEPT !.pc = "returned", !.ret = NoData]

----------------------------------------------------------------------------
(* TMDB client: inputs *)

LanguageLists == {<<>>, <<"zh">>, <<"zh", "en">>}

Response(status, retry_after, results) ==
    [status |-> status, retry_after |-> retry_after, results |-> results]

\* the answers to one request: found, throttled, refused, or no answer at all
Responses ==
    {Response(200, NoHeader, 1), Response(500, NoHeader, 0), Response(0, NoHeader, 0)}
    \cup {Response(429, h, 0) : h \in {NoHeader, <<"1">>, <<"S", "u", "n">>}}

\* the answers under concurrency: found, refused, or throttled for one tick
BriefResponses ==
    {Response(200, NoHeader, 1), Response(500, NoHeader, 0), Response(429, <<"1">>, 0)}

\* the answers to a search: so many results, or refused
SearchResponses == {Response(200, NoHeader, n) : n \in 0..1} \cup {Response(500, NoHeader, 0)}

Requests ==
    {Request("search", 0, NoLanguage), Request("details", 0, "en")}

----------------------------------------------------------------------------
(* TMDB client: state and steps *)

InitTMDB(ntasks, language_lists, intervals) ==
    /\ rules = <<>>
    /\ engine = EngineInit("off", RecognitionResult(File_A, NoMedia, "low"), "local")
    /\ TransferUnused
    /\ clock = 2
    /\ llm = <<>>
    /\ \E languages \in language_lists, min_interval \in intervals :
          tmdb = TMDBClient(languages, min_interval)
    /\ tasks = [t \in 1..ntasks |-> NoRequest]
    /\ cache = <<>>

\* lines 118-139: _request is called
RequestBegin(t, req) ==
    /\ tasks[t].pc = "idle"
    /\ \E x \in {_wait_for_rate_limit(t, [tasks[t] EXCEPT !.call = "_request", !.req = req])} :
          /\ tasks' = [tasks EXCEPT ![t] = x.task]
          /\ tmdb' = x.tmdb
    /\ UNCHANGED <<rules, engine, transferVars, clock, llm, cache>>

\* line 109: the lock is free and this coroutine is the first in its queue
LockAcquired(t) ==
    /\ tasks[t].pc = "lock"
    /\ tmdb._lock = 0
    /\ Head(tmdb.waiters) = t
    /\ \E x \in {Limited(t, tasks[t], Tail(tmdb.waiters))} :
          /\ tasks' = [tasks EXCEPT ![t] = x.task]
          /\ tmdb' = x.tmdb
    /\ UNCHANGED <<rules, engine, transferVars, clock, llm, cache>>

\* lines 114-116, 127-139: the sleep in the limiter is over; the request goes out
SlotReached(t) ==
    /\ tasks[t].pc = "sleep"
    /\ clock >= tasks[t].wake
    /\ tasks' = [tasks EXCEPT ![t].pc = "http"]
    /\ tmdb' = [tmdb EXCEPT
                   !._last_request_time = clock, !._lock = 0,
                   !.requests = Append(@, [time |-> clock, task |-> t,
                                           params |-> request_params(tasks[t].req)])]
    /\ UNCHANGED <<rules, engine, transferVars, clock, llm, cache>>

\* the 429 responses a call has had so far
Throttles(task) ==
    Cardinality({k \in 1..Len(task.responses) : task.responses[k].status = 429})

\* lines 139-156: the response is in, or the transport has failed
ResponseIn(t, responses) ==
    /\ tasks[t].pc = "http"
    /\ \E response \in responses :
          /\ response.status = 429 => Throttles(tasks[t]) < MaxThrottles
          /\ tasks' = [tasks EXCEPT ![t] = after_response(tasks[t], response)]
    /\ UNCHANGED <<rules, engine, transferVars, clock, llm, tmdb, cache>>

\* lines 145-146: the sleep after a 429 is over; _request calls itself
RetryAfterOver(t) ==
    /\ tasks[t].pc = "backoff"
    /\ clock >= tasks[t].wake
    /\ \E x \in {_wait_for_rate_limit(t, tasks[t])} :
          /\ tasks' = [tasks EXCEPT ![t] = x.task]
          /\ tmdb' = x.tmdb
    /\ UNCHANGED <<rules, engine, transferVars, clock, llm, cache>>

\* concurrent _request calls on one client
InitRequests == InitTMDB(MaxTasks, {<<"zh">>}, {1, 2})

NextRequests ==
    \/ Tick(MaxClock)
    \/ \E t \in DOMAIN tasks : RequestBegin(t, Request("search", 0, NoLanguage))
    \/ \E t \in DOMAIN tasks : LockAcquired(t)
    \/ \E t \in DOMAIN tasks : SlotReached(t)
    \/ \E t \in DOMAIN tasks : ResponseIn(t, BriefResponses)
    \/ \E t \in DOMAIN tasks : RetryAfterOver(t)

SpecRequests == InitRequests /\ [][NextRequests]_vars

\* one _request call, every answer, time enough for the longest wait
InitRequest == InitTMDB(1, {<<"zh">>}, {1, 2})

NextRequest ==
    \/ Tick(MaxClock + RetryAfterDefault)
    \/ \E req \in Requests : RequestBegin(1, req)
    \/ SlotReached(1)
    \/ ResponseIn(1, Responses)
    \/ RetryAfterOver(1)

SpecRequest == InitRequest /\ [][NextRequest]_vars

\* lines 165-169, 315-321: the search that search_with_languages is at; past the
\* configured languages, the one with language None
SearchRequest(task) ==
    Request("search", task.search_year,
            IF task.lang_idx <= Len(tmdb.languages) THEN tmdb.languages[task.lang_idx]
            ELSE NoLanguage)

\* lines 343, 313-316: find_best_match is called and sends its first search
FindBestMatchBegin(t, year) ==
    /\ tasks[t].pc = "idle"
    /\ \E task \in {[tasks[t] EXCEPT !.call = "find_best_match", !.year = year,
                                      !.search_year = year, !.lang_idx = 1]} :
       \E x \in {_wait_for_rate_limit(t, [task EXCEPT !.req = SearchRequest(task)])} :
          /\ tasks' = [tasks EXCEPT ![t] = x.task]
          /\ tmdb' = x.tmdb
    /\ UNCHANGED <<rules, engine, transferVars, clock, llm, cache>>

\* lines 170-189, 315-322, 343-360: a search is back; results end the searching and
\* the details are asked for, none lead to the next language, to the search with no
\* language, to the pass without the year, or to None
SearchReturned(t) ==
    /\ tasks[t].pc = "returned"
    /\ tasks[t].call = "find_best_match"
    /\ tasks[t].req.endpoint = "search"
    /\ \E results \in {IF tasks[t].ret.none THEN 0 ELSE tasks[t].ret.results} :
       \E task \in {IF results > 0
                    THEN [tasks[t] EXCEPT !.results = results,
                                          !.lang = tasks[t].req.language,
                                          !.req = Request("details", 0, tasks[t].req.language)]
                    ELSE IF tasks[t].lang_idx <= Len(tmdb.languages)
                         THEN [tasks[t] EXCEPT
                                  !.lang_idx = @ + 1,
                                  !.req = SearchRequest([tasks[t] EXCEPT !.lang_idx = @ + 1])]
                         ELSE [tasks[t] EXCEPT
                                  !.search_year = 0, !.lang_idx = 1,
                                  !.req = SearchRequest([tasks[t] EXCEPT !.search_year = 0,
                                                                         !.lang_idx = 1])]} :
          IF results = 0 /\ tasks[t].lang_idx > Len(tmdb.languages) /\ tasks[t].search_year = 0
          THEN /\ tasks' = [tasks EXCEPT ![t].pc = "done", ![t].ret = NoData]
               /\ tmdb' = tmdb
          ELSE \E x \in {_wait_for_rate_limit(t, task)} :
                  /\ tasks' = [tasks EXCEPT ![t] = x.task]
                  /\ tmdb' = x.tmdb
    /\ UNCHANGED <<rules, engine, transferVars, clock, llm, cache>>

\* lines 356-371: the details are back, or not: the first search result stands in
DetailsReturned(t) ==
    /\ tasks[t].pc = "returned"
    /\ tasks[t].call = "find_best_match"
    /\ tasks[t].req.endpoint = "details"
    /\ tasks' = [tasks EXCEPT ![t].pc = "done", ![t].ret = Data(tasks[t].results)]
    /\ UNCHANGED <<rules, engine, transferVars, clock, llm, tmdb, cache>>

\* one find_best_match call, every list of languages, every answer to every search
InitFindBestMatch == InitTMDB(1, LanguageLists, {1})

NextFindBestMatch ==
    \/ Tick(2 * MaxClock)
    \/ \E year \in {0, 2020} : FindBestMatchBegin(1, year)
    \/ SlotReached(1)
    \/ ResponseIn(1, SearchResponses)
    \/ SearchReturned(1)
    \/ DetailsReturned(1)

SpecFindBestMatch == InitFindBestMatch /\ [][NextFindBestMatch]_vars

----------------------------------------------------------------------------
(* TMDB client: properties *)

\* C14: consecutive requests of one client go out at least _min_interval apart, and
\* the limiter's lock is held only by a coroutine asleep in the limiter, never by one
\* whose HTTP request is under way
C14_SpacedAndLockOnlyInLimiter ==
    /\ \A r \in 2..Len(tmdb.requests) :
          tmdb.requests[r].time - tmdb.requests[r - 1].time >= tmdb._min_interval
    /\ \A t \in DOMAIN tasks :
          /\ tmdb._lock = t => tasks[t].pc = "sleep"
          /\ tasks[t].pc \in {"http", "backoff", "returned"} => tmdb._lock # t

\* two coroutines have sent requests; one is in its HTTP request while another
\* sleeps in the limiter with the lock and a third party queues for it
C14_Witness ==
    \E t, u \in DOMAIN tasks :
        /\ t # u
        /\ \E r, s \in 1..Len(tmdb.requests) :
              tmdb.requests[r].task = t /\ tmdb.requests[s].task = u
        /\ tasks[t].pc = "http"
        /\ tmdb._lock = u

\* the requests task t has sent, in order
SentBy(t) == SelectSeq(tmdb.requests, LAMBDA r : r.task = t)

\* the seconds a Retry-After header asks for; absent, the default
RetryAfterSeconds(header) ==
    IF header = NoHeader THEN RetryAfterDefault
    ELSE IF header # <<>> /\ Range(header) \subseteq DigitChars THEN DigitsVal(header)
    ELSE 0

\* the call of task t has been answered k times and nothing answered 429 is pending
Answered(t, k) == Len(tasks[t].responses) = k /\ tasks[t].pc \in {"http", "returned"}

\* C15: a 429 response always leads to the same request being sent again, no sooner
\* than Retry-After (10 when absent) after the response and _min_interval after the
\* request before; any other response ends the call, with no result unless it is 200
C15_OnlyThrottlingIsRetried ==
    \A t \in DOMAIN tasks :
        LET task == tasks[t]
            sent == SentBy(t)
            n    == Len(task.responses)
        IN  task.call = "_request" =>
            /\ \A k \in 1..(n - 1) : task.responses[k].status = 429
            /\ task.pc = "returned" =>
                  /\ task.responses[n].status # 429
                  /\ Len(sent) = n
                  /\ task.ret = NoData <=> task.responses[n].status # 200
            /\ task.pc = "http" => Len(sent) = n + 1
            /\ \A k \in 2..Len(sent) : sent[k].params = sent[1].params
            /\ task.pc = "http" /\ n >= 1 =>
                  /\ sent[n + 1].time >= task.heard
                                            + RetryAfterSeconds(task.responses[n].retry_after)
                  /\ sent[n + 1].time >= sent[n].time + tmdb._min_interval

\* the searches of one pass over the languages, the one with no language last
SearchPass(year) ==
    [k \in 1..(Len(tmdb.languages) + 1) |->
        [endpoint |-> "search", year |-> year,
         language |-> IF k <= Len(tmdb.languages) THEN tmdb.languages[k] ELSE NoLanguage]]

\* the searches that find_best_match may send, in order
SearchOrder(year) ==
    IF year # 0 THEN SearchPass(year) \o SearchPass(0) ELSE SearchPass(0)

\* the k-th answer to the call of task t brought results
Found(t, k) == tasks[t].responses[k].status = 200 /\ tasks[t].responses[k].results > 0

\* C16: the searches of a find_best_match call are a prefix of: one per configured
\* language in order with the year, one with no language parameter, and for a given
\* year the same again without it; no search follows one that brought results, and
\* the call gives up only when every search of the order has come back empty
C16_SearchOrder ==
    \A t \in DOMAIN tasks :
        LET sent     == SentBy(t)
            searches == SelectSeq(sent, LAMBDA r : r.params.endpoint = "search")
            order    == SearchOrder(tasks[t].year)
        IN  tasks[t].call = "find_best_match" =>
            /\ Len(searches) <= Len(order)
            /\ \A k \in 1..Len(searches) :
                  /\ searches[k].params = order[k]
                  /\ sent[k] = searches[k]
                  /\ k < Len(searches) => ~Found(t, k)
            /\ tasks[t].pc = "done" /\ tasks[t].ret = NoData => Len(searches) = Len(order)

----------------------------------------------------------------------------
(* TMDB client: _calculate_confidence *)

\* TMDBResult, the fields the confidence looks at
TMDBResult(title, original_title, year, alternative_titles) ==
    [title |-> title, original_title |-> original_title, year |-> year,
     alternative_titles |-> alternative_titles]

Abs(n) == IF n < 0 THEN -n ELSE n

\* lines 395-400 with the off-by-one year worth nothing
year_score_exact(result, year) ==
    IF Truthy(year) /\ Truthy(result.year) /\ year.i = result.year.i THEN 2 ELSE 0

\* lines 384-393
title_score(result, query) ==
    LET query_lower == LowerStr(query)
    IN  IF LowerStr(result.title) = query_lower THEN 3
        ELSE IF IsSubstr(query_lower, LowerStr(result.title)) THEN 2
        ELSE IF /\ Truthy(result.original_title)
                /\ IsSubstr(query_lower, LowerStr(result.original_title.s)) THEN 2
        ELSE IF \E k \in 1..Len(result.alternative_titles) :
                    IsSubstr(query_lower, LowerStr(result.alternative_titles[k])) THEN 1
        ELSE 0

\* lines 395-400
year_score(result, year) ==
    IF Truthy(year) /\ Truthy(result.year)
    THEN IF year.i = result.year.i THEN 2
         ELSE IF Abs(year.i - result.year.i) = 1 THEN 1 ELSE 0
    ELSE 0

\* lines 402-408
filename_score(result, filename) ==
    IF Truthy(filename)
    THEN LET filename_lower == LowerStr(filename.s)
         IN  (IF IsSubstr(LowerStr(result.title), filename_lower) THEN 1 ELSE 0)
             + (IF /\ Truthy(result.original_title)
                   /\ IsSubstr(LowerStr(result.original_title.s), filename_lower)
                THEN 1 ELSE 0)
    ELSE 0

\* lines 382-412
confidence_score(result, query, year, filename, total_results) ==
    title_score(result, query) + year_score(result, year) + filename_score(result, filename)
        + (IF total_results = 1 THEN 1 ELSE 0)

\* lines 373-420
_calculate_confidence(result, query, year, filename, total_results) ==
    LET score == confidence_score(result, query, year, filename, total_results)
    IN  IF score >= 5 THEN "high" ELSE IF score >= 3 THEN "medium" ELSE "low"

ConfidenceTitles == {<<"A">>, <<"A", "B">>, <<"C">>, <<>>}

ConfidenceInputs ==
    [result : {TMDBResult(title, original_title, year, alternative_titles) :
                  title \in ConfidenceTitles,
                  original_title \in {PyNone, PyStr(<<>>), PyStr(<<"A", "b">>), PyStr(<<"B">>)},
                  year \in {PyNone, PyInt(2019), PyInt(2020), PyInt(2021), PyInt(2022)},
                  alternative_titles \in {<<>>, << <<"x", "a">> >>, << <<"C">>, <<"B">> >>}},
     query : {<<"a">>, <<"b">>, <<"a", "b">>, <<>>},
     year : {PyNone, PyInt(0), PyInt(2020)},
     filename : {PyNone, PyStr(<<"a", ".", "m">>), PyStr(<<"x", "a", "b", ".", "m">>)},
     total_results : {1, 2}]

\* a match waiting for its confidence
InitConfidence ==
    /\ rules = <<>>
    /\ engine = EngineInit("off", RecognitionResult(File_A, NoMedia, "low"), "local")
    /\ TransferUnused
    /\ clock = 0
    /\ llm = <<>>
    /\ tmdb = <<>>
    /\ \E input \in ConfidenceInputs : tasks = [input |-> input, pc |-> "idle", confidence |-> ""]
    /\ cache = <<>>

\* lines 366-369: find_best_match rates its match
CalculateConfidence ==
    /\ tasks.pc = "idle"
    /\ tasks' = [tasks EXCEPT
                    !.pc = "done",
                    !.confidence = _calculate_confidence(tasks.input.result, tasks.input.query,
                                                         tasks.input.year, tasks.input.filename,
                                                         tasks.input.total_results)]
    /\ UNCHANGED <<rules, engine, transferVars, clock, llm, tmdb, cache>>

NextConfidence == CalculateConfidence

SpecConfidence == InitConfidence /\ [][NextConfidence]_vars

\* x occurs in y, case ignored
ContainsIgnoringCase(y, x) ==
    \E i \in 1..(Len(y) + 1) :
        /\ i + Len(x) - 1 <= Len(y)
        /\ \A j \in 1..Len(x) : Lower(y[i + j - 1]) = Lower(x[j])

\* an optional string is there: not None and not empty
Given(v) == v.t = "str" /\ v.s # <<>>

\* the score of the claim, term by term; a year of 0 counts as no year
ClaimedScore(input) ==
    LET r == input.result
        title_points ==
            CASE (/\ Len(r.title) = Len(input.query)
                  /\ ContainsIgnoringCase(r.title, input.query)) -> 3
              [] ContainsIgnoringCase(r.title, input.query) -> 2
              [] (/\ Given(r.original_title)
                  /\ ContainsIgnoringCase(r.original_title.s, input.query)) -> 2
              [] (\E alt \in Range(r.alternative_titles) :
                     ContainsIgnoringCase(alt, input.query)) -> 1
              [] OTHER -> 0
        years == input.year.t = "int" /\ r.year.t = "int" /\ input.year.i # 0 /\ r.year.i # 0
        year_points ==
            CASE years /\ input.year.i = r.year.i -> 2
              [] years /\ (input.year.i = r.year.i + 1 \/ r.year.i = input.year.i + 1) -> 1
              [] OTHER -> 0
        title_in_name ==
            IF Given(input.filename) /\ ContainsIgnoringCase(input.filename.s, r.title)
            THEN 1 ELSE 0
        original_in_name ==
            IF /\ Given(input.filename) /\ Given(r.original_title)
               /\ ContainsIgnoringCase(input.filename.s, r.original_title.s)
            THEN 1 ELSE 0
        single == IF input.total_results = 1 THEN 1 ELSE 0
    IN  title_points + year_points + title_in_name + original_in_name + single

\* C17: the confidence is high for a claimed score of 5 or more, medium for 3 or 4,
\* low below, the score being title (3/2/2/1/0) + year (2/1/0) + filename holds title
\* + filename holds original title + single result
C17_ConfidenceIsTheClaimedScore ==
    tasks.pc = "done" =>
        tasks.confidence = (IF ClaimedScore(tasks.input) >= 5 THEN "high"
                            ELSE IF ClaimedScore(tasks.input) >= 3 THEN "medium"
                            ELSE "low")

\* a match rated medium on an off-by-one year: title contained (2) and year (1)
C17_Witness ==
    /\ tasks.pc = "done"
    /\ tasks.confidence = "medium"
    /\ ClaimedScore(tasks.input) = 3
    /\ tasks.input.year = PyInt(2020) /\ tasks.input.result.year = PyInt(2021)
    /\ tasks.input.filename = PyNone /\ tasks.input.total_results = 2

----------------------------------------------------------------------------
(* Recognition service: recognize_single, re_identify and the recognition cache *)

MaxServiceCalls == 3

\* FileInfo as the recognizer reads it: name, size, path
Descriptor(name, size, path) == [name |-> name, size |-> size, path |-> path]

\* lines 349-352: the text that is hashed stands for the hash
_compute_file_hash(filename, size) == filename \o <<":">> \o IntStr(size)

\* RecognitionResult as the recognizer builds it
ServiceResult(file_info, confidence, media_info, llm_extracted, user_override) ==
    [file_info |-> file_info, confidence |-> confidence, media_info |-> media_info,
     llm_extracted |-> llm_extracted, user_override |-> user_override]

NoResult == ServiceResult(Descriptor(<<>>, 0, <<>>), "", NoMedia, PyNone, FALSE)

\* what find_best_match or a details lookup hands back: nothing, or a match
NoMatch == [found |-> FALSE, tmdb_id |-> 0, title |-> <<>>, year |-> PyNone,
            match_confidence |-> "low"]

Match(tmdb_id, title, year, match_confidence) ==
    [found |-> TRUE, tmdb_id |-> tmdb_id, title |-> title, year |-> year,
     match_confidence |-> match_confidence]

\* MediaInfo.model_dump(): the fields as a dict
model_dump(media_info) ==
    [k \in DOMAIN media_info \ {"present"} |-> media_info[k]]

\* MediaInfo(**media_info_data) of lines 423-428
MediaInfoOf(media_info_data) ==
    [k \in DOMAIN media_info_data \cup {"present"} |->
        IF k = "present" THEN TRUE ELSE media_info_data[k]]

\* RecognitionCacheDB
CacheRow(file_hash, file_name, file_size, media_type, tmdb_id, recognition_data, confidence) ==
    [file_hash |-> file_hash, file_name |-> file_name, file_size |-> file_size,
     media_type |-> media_type, tmdb_id |-> tmdb_id,
     recognition_data |-> recognition_data, confidence |-> confidence]

\* lines 354-365: the positions of the rows with this hash
_get_cached_result(file_hash) ==
    {k \in 1..Len(cache) : cache[k].file_hash = file_hash}

\* `if cached:` of line 115 never taken
cache_hit_never(found) == FALSE

\* `if cached:` of line 115
cache_hit(found) == found # {}

\* lines 379-383
cache_data_of(result) ==
    [media_info    |-> IF result.media_info.present THEN model_dump(result.media_info)
                       ELSE PyNone,
     llm_extracted |-> result.llm_extracted,
     user_override |-> result.user_override]

\* str(tmdb_id) if tmdb_id else None, of lines 391 and 399
tmdb_id_text(media_info) ==
    IF Truthy(media_info.tmdb_id) THEN PyStr(IntStr(media_info.tmdb_id.i)) ELSE PyNone

\* _cache_result leaving an entry that exists as it is
_cache_result_insert_only(file_hash, filename, file_size, result) ==
    IF _get_cached_result(file_hash) # {} THEN cache
    ELSE Append(cache,
                CacheRow(file_hash, filename, file_size, "unknown", PyNone,
                         cache_data_of(result), result.confidence))

\* _cache_result writing only results that have a match
_cache_result_matches_only(file_hash, filename, file_size, result) ==
    IF result.media_info.present
    THEN _cache_result_insert_only(file_hash, filename, file_size, result)
    ELSE cache

\* lines 367-405: the table after _cache_result
_cache_result(file_hash, filename, file_size, result) ==
    LET existing == _get_cached_result(file_hash)
    IN  IF existing # {}
        THEN [k \in 1..Len(cache) |->
                IF k \in existing
                THEN IF result.media_info.present
                     THEN [cache[k] EXCEPT
                              !.recognition_data = cache_data_of(result),
                              !.confidence = result.confidence,
                              !.media_type = result.media_info.media_type,
                              !.tmdb_id = tmdb_id_text(result.media_info)]
                     ELSE [cache[k] EXCEPT
                              !.recognition_data = cache_data_of(result),
                              !.confidence = result.confidence]
                ELSE cache[k]]
        ELSE Append(cache,
                    CacheRow(file_hash, filename, file_size,
                             IF result.media_info.present THEN result.media_info.media_type
                             ELSE "unknown",
                             IF result.media_info.present THEN tmdb_id_text(result.media_info)
                             ELSE PyNone,
                             cache_data_of(result), result.confidence))

\* lines 407-430
_cached_to_result(file_info, cached) ==
    ServiceResult(file_info, cached.confidence,
                  IF cached.recognition_data.media_info # PyNone
                  THEN MediaInfoOf(cached.recognition_data.media_info)
                  ELSE NoMedia,
                  cached.recognition_data.llm_extracted,
                  cached.recognition_data.user_override)

\* lines 205-231 and 312-345: the media info of a match; season from the hints
MediaInfoFor(media_type, tmdb_result, season) ==
    MediaInfo(media_type, tmdb_result.title, tmdb_result.year, season, PyNone,
              PyInt(tmdb_result.tmdb_id), TMDB_Empty)

\* lines 280-347
_build_recognition_result(file_info, llm_result, tmdb_result, media_type) ==
    ServiceResult(file_info,
                  IF ~tmdb_result.found THEN "low"
                  ELSE IF tmdb_result.match_confidence = "high" THEN "high"
                  ELSE IF tmdb_result.match_confidence = "medium" THEN "medium"
                  ELSE "low",
                  IF tmdb_result.found
                  THEN MediaInfoFor(media_type, tmdb_result, llm_result.season)
                  ELSE NoMedia,
                  PyStr(llm_result.title_en), FALSE)

\* lines 196-231: the result of re_identify
re_identified(file_info, tmdb_result, media_type) ==
    ServiceResult(file_info, IF tmdb_result.found THEN "high" ELSE "low",
                  IF tmdb_result.found THEN MediaInfoFor(media_type, tmdb_result, PyNone)
                  ELSE NoMedia,
                  PyNone, TRUE)

----------------------------------------------------------------------------
(* Recognition service: inputs, state and steps *)

Name_a == <<"a">>

\* two descriptors with one fingerprint, and one of another size
Descriptors ==
    {Descriptor(Name_a, 1, <<"/", "i", "/", "a">>),
     Descriptor(Name_a, 1, <<"/", "j", "/", "a">>),
     Descriptor(Name_a, 2, <<"/", "i", "/", "a">>)}

FileHashes == {_compute_file_hash(d.name, d.size) : d \in Descriptors}

CatalogResults ==
    {NoMatch, Match(7, <<"A">>, PyInt(2020), "medium"), Match(8, <<"B">>, PyNone, "low")}

Hints == {[title_en |-> <<"A">>, season |-> PyInt(1)]}

NoCall ==
    [pc |-> "idle", call |-> "", file_info |-> Descriptor(<<>>, 0, <<>>),
     media_type |-> "unknown", llm_result |-> [title_en |-> <<>>, season |-> PyNone],
     hit |-> FALSE, ret |-> NoResult, ncalls |-> 0,
     written |-> [h \in FileHashes |-> NoResult],
     prev |-> [call |-> "", file_hash |-> <<>>, ret |-> NoResult]]

InitRecognition ==
    /\ rules = <<>>
    /\ engine = EngineInit("off", RecognitionResult(File_A, NoMedia, "low"), "local")
    /\ TransferUnused
    /\ clock = 0
    /\ llm = [calls |-> 0]
    /\ tmdb = [calls |-> 0]
    /\ tasks = NoCall
    /\ cache = <<>>

\* lines 109-126: the fingerprint, the lookup, and on a miss the call of the LLM agent
RecognizeBegin(file_info, media_type) ==
    /\ tasks.pc = "idle"
    /\ tasks.ncalls < MaxServiceCalls
    /\ \E found \in {_get_cached_result(_compute_file_hash(file_info.name, file_info.size))} :
          IF cache_hit(found)
          THEN /\ tasks' = [tasks EXCEPT
                               !.pc = "done", !.call = "recognize_single",
                               !.file_info = file_info, !.media_type = media_type,
                               !.hit = TRUE,
                               !.ret = _cached_to_result(file_info,
                                                         cache[CHOOSE k \in found : TRUE])]
               /\ llm' = llm
          ELSE /\ tasks' = [tasks EXCEPT
                               !.pc = "llm", !.call = "recognize_single",
                               !.file_info = file_info, !.media_type = media_type,
                               !.hit = FALSE]
               /\ llm' = [llm EXCEPT !.calls = @ + 1]
    /\ UNCHANGED <<rules, engine, transferVars, clock, tmdb, cache>>

\* lines 123-139: the hints are back; the catalog is asked
ExtractReturned ==
    /\ tasks.pc = "llm"
    /\ \E llm_result \in Hints :
          tasks' = [tasks EXCEPT !.pc = "tmdb", !.llm_result = llm_result]
    /\ tmdb' = [tmdb EXCEPT !.calls = @ + 1]
    /\ UNCHANGED <<rules, engine, transferVars, clock, llm, cache>>

\* lines 178-203: re_identify asks the catalog by id or by search term; given neither,
\* it goes on with no match
ReIdentifyBegin(file_info, media_type, asks) ==
    /\ tasks.pc = "idle"
    /\ tasks.ncalls < MaxServiceCalls
    /\ \E task \in {[tasks EXCEPT !.call = "re_identify", !.file_info = file_info,
                                  !.media_type = media_type, !.hit = FALSE]} :
          IF asks
          THEN /\ tasks' = [task EXCEPT !.pc = "tmdb"]
               /\ tmdb' = [tmdb EXCEPT !.calls = @ + 1]
               /\ cache' = cache
          ELSE \E result \in {re_identified(file_info, NoMatch, media_type)} :
               \E file_hash \in {_compute_file_hash(file_info.name, file_info.size)} :
                  /\ tasks' = [task EXCEPT !.pc = "done", !.ret = result,
                                           !.written[file_hash] = result]
                  /\ tmdb' = tmdb
                  /\ cache' = _cache_result(file_hash, file_info.name, file_info.size, result)
    /\ UNCHANGED <<rules, engine, transferVars, clock, llm>>

\* lines 141-153 and 196-239: the catalog has answered; the result is built and cached
CatalogReturned ==
    /\ tasks.pc = "tmdb"
    /\ \E tmdb_result \in CatalogResults :
       \E result \in {IF tasks.call = "recognize_single"
                      THEN _build_recognition_result(tasks.file_info, tasks.llm_result,
                                                     tmdb_result, tasks.media_type)
                      ELSE re_identified(tasks.file_info, tmdb_result, tasks.media_type)} :
       \E file_hash \in {_compute_file_hash(tasks.file_info.name, tasks.file_info.size)} :
          /\ tasks' = [tasks EXCEPT !.pc = "done", !.ret = result,
                                    !.written[file_hash] = result]
          /\ cache' = _cache_result(file_hash, tasks.file_info.name, tasks.file_info.size,
                                    result)
    /\ UNCHANGED <<rules, engine, transferVars, clock, llm, tmdb>>

\* the call returns to its caller
ServiceReturn ==
    /\ tasks.pc = "done"
    /\ tasks' = [tasks EXCEPT
                    !.pc = "idle", !.ncalls = @ + 1,
                    !.prev = [call |-> tasks.call,
                              file_hash |-> _compute_file_hash(tasks.file_info.name,
                                                               tasks.file_info.size),
                              ret |-> tasks.ret]]
    /\ UNCHANGED <<rules, engine, transferVars, clock, llm, tmdb, cache>>

NextRecognition ==
    \/ \E file_info \in Descriptors, media_type \in {"movie", "tv"} :
          RecognizeBegin(file_info, media_type)
    \/ ExtractReturned
    \/ \E file_info \in Descriptors, media_type \in {"movie", "tv"}, asks \in BOOLEAN :
          ReIdentifyBegin(file_info, media_type, asks)
    \/ CatalogReturned
    \/ ServiceReturn

SpecRecognition == InitRecognition /\ [][NextRecognition]_vars

----------------------------------------------------------------------------
(* Recognition service: properties *)

\* C18: a recognize_single call that finds an entry for its fingerprint ends in the
\* same step, with the entry turned into its result, no call to the LLM agent or the
\* catalog and no change to the cache; and the LLM agent or the catalog is only ever
\* called by a call that has looked and missed, or by re_identify
C18_HitShortCircuits ==
    [][/\ (/\ tasks.pc = "idle"
           /\ tasks'.call = "recognize_single"
           /\ _get_cached_result(_compute_file_hash(tasks'.file_info.name,
                                                    tasks'.file_info.size)) # {})
          => /\ tasks'.pc = "done"
             /\ UNCHANGED <<llm, tmdb, cache>>
             /\ \E k \in 1..Len(cache) :
                   /\ cache[k].file_hash = _compute_file_hash(tasks'.file_info.name,
                                                              tasks'.file_info.size)
                   /\ tasks'.ret = _cached_to_result(tasks'.file_info, cache[k])
       /\ (llm' # llm \/ tmdb' # tmdb \/ cache' # cache)
          => tasks'.call = "re_identify" \/ ~tasks'.hit]_vars

\* a recognize_single call has been answered from the cache, with media info
C18_Witness ==
    /\ tasks.call = "recognize_single"
    /\ tasks.pc = "done"
    /\ tasks.hit
    /\ tasks.ret.media_info.present
    /\ llm.calls = 1 /\ tmdb.calls = 1

\* the media type and catalog id an entry should show for a result
EntryKeysOf(result) ==
    IF result.media_info.present
    THEN <<result.media_info.media_type,
           IF result.media_info.tmdb_id = PyNone THEN PyNone
           ELSE PyStr(IntStr(result.media_info.tmdb_id.i))>>
    ELSE <<"unknown", PyNone>>

\* C19: at most one entry per fingerprint, and its confidence, media info, media type
\* and catalog id are those of the result written last for that fingerprint; with no
\* media info in that result, the entry shows no media type and no catalog id
C19_EntryIsTheLastResult ==
    \A k \in 1..Len(cache) :
        /\ \A j \in 1..Len(cache) : cache[j].file_hash = cache[k].file_hash => j = k
        /\ cache[k].file_hash \in FileHashes
        /\ LET last == tasks.written[cache[k].file_hash]
           IN  /\ cache[k].confidence = last.confidence
               /\ cache[k].recognition_data.media_info
                     = (IF last.media_info.present THEN model_dump(last.media_info)
                        ELSE PyNone)
               /\ <<cache[k].media_type, cache[k].tmdb_id>> = EntryKeysOf(last)

\* C20: a recognize_single that follows a re_identify of its fingerprint returns the
\* media info of the re-identification, confidence high if it had a match and low if
\* not, and user_override true
C20_ReIdentifiedIsReturned ==
    (/\ tasks.call = "recognize_single"
     /\ tasks.pc = "done"
     /\ tasks.prev.call = "re_identify"
     /\ tasks.prev.file_hash = _compute_file_hash(tasks.file_info.name, tasks.file_info.size))
    => /\ tasks.ret.media_info = tasks.prev.ret.media_info
       /\ tasks.ret.confidence = (IF tasks.prev.ret.media_info.present THEN "high" ELSE "low")
       /\ tasks.ret.user_override
       /\ tasks.ret.file_info = tasks.file_info
       /\ tasks.hit

\* an entry of confidence medium was re-identified to another match, and a descriptor
\* of the same name and size at another path is then recognized
C20_Witness ==
    /\ tasks.call = "recognize_single"
    /\ tasks.pc = "done"
    /\ tasks.ncalls = 2
    /\ tasks.prev.call = "re_identify"
    /\ tasks.prev.file_hash = _compute_file_hash(tasks.file_info.name, tasks.file_info.size)
    /\ tasks.prev.ret.file_info # tasks.file_info
    /\ tasks.ret.confidence = "high"
    /\ tasks.ret.media_info.tmdb_id = PyInt(8)

----------------------------------------------------------------------------
(* Recognition service: recognitions running concurrently, each in a session of its own *)

\* the result recognize_files puts in place of a recognition that raised (lines 69-74)
Degraded(file_info) == ServiceResult(file_info, "low", NoMedia, PyNone, FALSE)

NoRecognition ==
    [pc |-> "idle", file_info |-> Descriptor(<<>>, 0, <<>>), media_type |-> "unknown",
     hit |-> FALSE, result |-> NoResult, existing |-> {}, raised |-> "", ret |-> NoResult]

InitConcurrent ==
    /\ rules = <<>>
    /\ engine = EngineInit("off", RecognitionResult(File_A, NoMedia, "low"), "local")
    /\ TransferUnused
    /\ clock = 0
    /\ llm = [calls |-> 0]
    \* tmdb.committed: the recognitions in the order their cache writes were committed
    /\ tmdb = [calls |-> 0, committed |-> <<>>]
    /\ tasks = [t \in 1..MaxTasks |-> NoRecognition]
    /\ cache = <<>>

\* lines 62-67 and 109-117: recognize_files enters recognize_single, which looks the
\* fingerprint up
LookupCache(t, file_info, media_type) ==
    /\ tasks[t].pc = "idle"
    /\ \E found \in {_get_cached_result(_compute_file_hash(file_info.name, file_info.size))} :
          IF cache_hit(found)
          THEN tasks' = [tasks EXCEPT
                            ![t].pc = "done", ![t].file_info = file_info,
                            ![t].media_type = media_type, ![t].hit = TRUE,
                            ![t].ret = _cached_to_result(file_info,
                                                         cache[CHOOSE k \in found : TRUE])]
          ELSE tasks' = [tasks EXCEPT
                            ![t].pc = "recognizing", ![t].file_info = file_info,
                            ![t].media_type = media_type]
    /\ UNCHANGED <<rules, engine, transferVars, clock, llm, tmdb, cache>>

\* lines 119-150: the LLM agent and the catalog have answered and the result is built;
\* lines 376-377: _cache_result reads the entry of the fingerprint
ReadExisting(t) ==
    /\ tasks[t].pc = "recognizing"
    /\ \E llm_result \in Hints, tmdb_result \in CatalogResults :
          tasks' = [tasks EXCEPT
                       ![t].pc = "caching",
                       ![t].result = _build_recognition_result(tasks[t].file_info, llm_result,
                                                               tmdb_result,
                                                               tasks[t].media_type),
                       ![t].existing = _get_cached_result(
                                           _compute_file_hash(tasks[t].file_info.name,
                                                              tasks[t].file_info.size))]
    /\ llm' = [llm EXCEPT !.calls = @ + 1]
    /\ tmdb' = [tmdb EXCEPT !.calls = @ + 1]
    /\ UNCHANGED <<rules, engine, transferVars, clock, cache>>

\* lines 385-405 with the unique file_hash of db_models.py line 115: the entry read is
\* updated, or a new one is inserted; the insert of a fingerprint that another session
\* has inserted since the read fails at commit, and recognize_files (lines 69-74)
\* answers with the degraded result
CommitCache(t) ==
    /\ tasks[t].pc = "caching"
    /\ \E file_hash \in {_compute_file_hash(tasks[t].file_info.name, tasks[t].file_info.size)} :
          IF tasks[t].existing = {} /\ _get_cached_result(file_hash) # {}
          THEN /\ tasks' = [tasks EXCEPT ![t].pc = "done", ![t].raised = "IntegrityError",
                                         ![t].ret = Degraded(tasks[t].file_info)]
               /\ UNCHANGED <<cache, tmdb>>
          ELSE /\ tasks' = [tasks EXCEPT ![t].pc = "done", ![t].ret = tasks[t].result]
               /\ cache' = _cache_result(file_hash, tasks[t].file_info.name,
                                         tasks[t].file_info.size, tasks[t].result)
               /\ tmdb' = [tmdb EXCEPT !.committed = Append(@, t)]
    /\ UNCHANGED <<rules, engine, transferVars, clock, llm>>

NextConcurrent ==
    \/ \E t \in 1..MaxTasks, file_info \in Descriptors, media_type \in {"movie", "tv"} :
          LookupCache(t, file_info, media_type)
    \/ \E t \in 1..MaxTasks : ReadExisting(t)
    \/ \E t \in 1..MaxTasks : CommitCache(t)

SpecConcurrent == InitConcurrent /\ [][NextConcurrent]_vars

\* C21: each recognition that missed the cache ends with the result it recognized, and
\* once all have ended the cache holds one entry per fingerprint, with the data of the
\* recognition of that fingerprint that committed last
C21_BothCompleteLastWriterWins ==
    /\ \A t \in 1..MaxTasks :
          (tasks[t].pc = "done" /\ ~tasks[t].hit)
          => tasks[t].raised = "" /\ tasks[t].ret = tasks[t].result
    /\ \A k \in 1..Len(cache) :
          /\ \A j \in 1..Len(cache) : cache[j].file_hash = cache[k].file_hash => j = k
          /\ \A n \in 1..Len(tmdb.committed) :
                LET t == tmdb.committed[n]
                IN  (/\ _compute_file_hash(tasks[t].file_info.name, tasks[t].file_info.size)
                           = cache[k].file_hash
                     /\ \A m \in (n + 1)..Len(tmdb.committed) :
                           _compute_file_hash(tasks[tmdb.committed[m]].file_info.name,
                                              tasks[tmdb.committed[m]].file_info.size)
                              # cache[k].file_hash)
                    => /\ cache[k].recognition_data = cache_data_of(tasks[t].result)
                       /\ cache[k].confidence = tasks[t].result.confidence

----------------------------------------------------------------------------
(* Recognition service: recognize_files *)

MaxFiles == 3

\* the lists of files of a request
FileLists(n) ==
    UNION {[1..k -> Descriptors] : k \in 0..n}

\* where recognize_single may raise: nowhere, at the cache lookup, in the LLM agent, in
\* the catalog client, or at the commit of the cache write
Failures == {"none", "lookup", "llm", "tmdb", "commit"}

NoFilesCall ==
    [pc |-> "idle", files |-> <<>>, media_type |-> "unknown", i |-> 1, results |-> <<>>,
     outcomes |-> <<>>, ret |-> <<>>]

InitRecognizeFiles ==
    /\ rules = <<>>
    /\ engine = EngineInit("off", RecognitionResult(File_A, NoMedia, "low"), "local")
    /\ TransferUnused
    /\ clock = 0
    /\ llm = [calls |-> 0]
    /\ tmdb = [calls |-> 0, events |-> <<>>]
    /\ tasks = NoFilesCall
    /\ cache = <<>>

\* lines 55-60: recognition_started is emitted and the loop is entered
RecognizeFilesBegin(files, media_type) ==
    /\ tasks.pc = "idle"
    /\ tasks' = [NoFilesCall EXCEPT !.pc = "loop", !.files = files, !.media_type = media_type]
    /\ tmdb' = [tmdb EXCEPT !.events = Append(@, [type |-> "recognition_started",
                                                  file_count |-> Len(files)])]
    /\ UNCHANGED <<rules, engine, transferVars, clock, llm, cache>>

\* recognize_single of lines 109-153 for the file at hand: what it returns or raises,
\* whether it reached the LLM agent and the catalog, and the cache it leaves
recognize_single(file_info, media_type, failure, tmdb_result) ==
    LET file_hash == _compute_file_hash(file_info.name, file_info.size)
        found     == _get_cached_result(file_hash)
        result    == _build_recognition_result(file_info, CHOOSE h \in Hints : TRUE,
                                               tmdb_result, media_type)
    IN  IF failure = "lookup"
        THEN [raised |-> TRUE, result |-> NoResult, asked |-> 0, cache |-> cache]
        ELSE IF cache_hit(found)
        THEN [raised |-> FALSE, asked |-> 0, cache |-> cache,
              result |-> _cached_to_result(file_info, cache[CHOOSE k \in found : TRUE])]
        ELSE IF failure = "llm"
        THEN [raised |-> TRUE, result |-> NoResult, asked |-> 1, cache |-> cache]
        ELSE IF failure = "tmdb"
        THEN [raised |-> TRUE, result |-> NoResult, asked |-> 2, cache |-> cache]
        ELSE IF failure = "commit"
        THEN [raised |-> TRUE, result |-> NoResult, asked |-> 2, cache |-> cache]
        ELSE [raised |-> FALSE, result |-> result, asked |-> 2,
              cache |-> _cache_result(file_hash, file_info.name, file_info.size, result)]

\* a loop in which the exception of one file ends the whole call
RecognizeFile_aborting ==
    /\ tasks.pc = "loop"
    /\ tasks.i <= Len(tasks.files)
    /\ \E failure \in Failures, tmdb_result \in CatalogResults :
       \E out \in {recognize_single(tasks.files[tasks.i], tasks.media_type, failure,
                                    tmdb_result)} :
          /\ tasks' = IF out.raised
                      THEN [tasks EXCEPT !.pc = "done", !.ret = tasks.results,
                                         !.outcomes = Append(@, out)]
                      ELSE [tasks EXCEPT !.i = @ + 1,
                                         !.results = Append(@, out.result),
                                         !.outcomes = Append(@, out)]
          /\ cache' = out.cache
          /\ llm' = [llm EXCEPT !.calls = @ + (IF out.asked >= 1 THEN 1 ELSE 0)]
          /\ tmdb' = [tmdb EXCEPT !.calls = @ + (IF out.asked >= 2 THEN 1 ELSE 0)]
    /\ UNCHANGED <<rules, engine, transferVars, clock>>

\* lines 62-74: one turn of the loop
RecognizeFile ==
    /\ tasks.pc = "loop"
    /\ tasks.i <= Len(tasks.files)
    /\ \E failure \in Failures, tmdb_result \in CatalogResults :
       \E out \in {recognize_single(tasks.files[tasks.i], tasks.media_type, failure,
                                    tmdb_result)} :
          /\ tasks' = [tasks EXCEPT
                          !.i = @ + 1,
                          !.results = Append(@, IF out.raised
                                                THEN Degraded(tasks.files[tasks.i])
                                                ELSE out.result),
                          !.outcomes = Append(@, out)]
          /\ cache' = out.cache
          /\ llm' = [llm EXCEPT !.calls = @ + (IF out.asked >= 1 THEN 1 ELSE 0)]
          /\ tmdb' = [tmdb EXCEPT !.calls = @ + (IF out.asked >= 2 THEN 1 ELSE 0)]
    /\ UNCHANGED <<rules, engine, transferVars, clock>>

\* lines 76-90: the summary is emitted and the results are returned
RecognizeFilesEnd ==
    /\ tasks.pc = "loop"
    /\ tasks.i > Len(tasks.files)
    /\ tasks' = [tasks EXCEPT !.pc = "done", !.ret = tasks.results]
    /\ tmdb' = [tmdb EXCEPT !.events =
                   Append(@, [type |-> "recognition_completed",
                              total |-> Len(tasks.results),
                              high_confidence |->
                                  Cardinality({k \in 1..Len(tasks.results) :
                                                  tasks.results[k].confidence = "high"}),
                              low_confidence |->
                                  Cardinality({k \in 1..Len(tasks.results) :
                                                  tasks.results[k].confidence = "low"})])]
    /\ UNCHANGED <<rules, engine, transferVars, clock, llm, cache>>

NextRecognizeFiles ==
    \/ \E files \in FileLists(MaxFiles), media_type \in {"movie"} :
          RecognizeFilesBegin(files, media_type)
    \/ RecognizeFile
    \/ RecognizeFilesEnd

SpecRecognizeFiles == InitRecognizeFiles /\ [][NextRecognizeFiles]_vars

\* C22: recognize_files returns one result per input file, in input order; the result of
\* a file whose recognition raised has confidence low and no media info, and the result
\* of any other file, also of one that follows a failure, is what its recognition returned
C22_OneResultPerFile ==
    tasks.pc = "done"
    => /\ Len(tasks.ret) = Len(tasks.files)
       /\ \A k \in 1..Len(tasks.files) :
             /\ tasks.ret[k].file_info = tasks.files[k]
             /\ IF tasks.outcomes[k].raised
                THEN tasks.ret[k].confidence = "low" /\ ~tasks.ret[k].media_info.present
                ELSE tasks.ret[k] = tasks.outcomes[k].result

\* three files, the provider call of the first raised, and the other two were recognized
C22_Witness ==
    /\ tasks.pc = "done"
    /\ Len(tasks.files) = 3
    /\ Len(tasks.ret) = 3
    /\ tasks.outcomes[1].raised /\ tasks.outcomes[1].asked = 1
    /\ ~tasks.outcomes[2].raised /\ tasks.ret[2].media_info.present
    /\ ~tasks.outcomes[3].raised /\ tasks.ret[3].media_info.present

----------------------------------------------------------------------------
(* VFS adapters: list_dir, mkdir, move and delete on the three backends *)

MaxAdapterCalls == 2

Root == <<"/">>

\* PurePosixPath(p).name
PosixName(p) ==
    LET slashes == {k \in 1..Len(p) : p[k] = "/"}
    IN  IF slashes = {} THEN p
        ELSE SubSeq(p, (CHOOSE x \in slashes : \A y \in slashes : y <= x) + 1, Len(p))

IsDir(f, path) == path = Root \/ path \in f.dirs

Present(f, path) == IsDir(f, path) \/ path \in FilePaths(f)

\* the entries a listing of a directory shows
Children(f, dir) ==
    {p \in f.dirs \cup FilePaths(f) : p # Root /\ PosixParent(p) = dir}

\* what an adapter call comes to: "ok" or the exception raised, the value returned, and
\* the filesystem it leaves
Outcome(outcome, f, value) == [outcome |-> outcome, fs |-> f, value |-> value]

\* the file src with its content gone from where it was and put at landing
Landed(f, src, landing, replaces) ==
    LET content == (CHOOSE x \in f.files : x[1] = src)[2]
        cleared == IF replaces THEN Delete(f, landing) ELSE f
    IN  [files |-> (cleared.files \ {<<src, content>>}) \cup {<<landing, content>>},
         dirs  |-> cleared.dirs]

(* LocalAdapter. fault: "denied" is a PermissionError of the operating system, "oserror"
   any other OSError, met by the last file operation of the call *)

local_list_dir(f, path, fault) ==
    IF ~Present(f, path) THEN Outcome("VFSNotFoundError", f, {})
    ELSE IF ~IsDir(f, path) THEN Outcome("VFSError", f, {})
    ELSE IF fault = "denied" THEN Outcome("VFSPermissionError", f, {})
    ELSE IF fault = "oserror" THEN Outcome("OSError", f, {})
    ELSE Outcome("ok", f, Children(f, path))

local_mkdir(f, path, fault) ==
    IF fault # "none" \/ ~MkdirPossible(f, path) THEN Outcome("VFSError", f, {})
    ELSE Outcome("ok", Mkdir(f, path), {})

local_move(f, src, dst, fault) ==
    IF ~Present(f, src) THEN Outcome("VFSNotFoundError", f, {})
    ELSE IF ~MkdirPossible(Delete(f, dst), PosixParent(dst))
    THEN Outcome("OSError", Delete(f, dst), {})
    ELSE IF fault # "none" \/ Under(src, dst)
    THEN Outcome("VFSError", MoveFailed(f, src, dst), {})
    ELSE Outcome("ok", Move(f, src, dst), {})

\* a delete that takes an absent path for a failure
local_delete_strict(f, path, recursive, fault) ==
    IF ~Present(f, path) THEN Outcome("VFSNotFoundError", f, {})
    ELSE IF fault # "none" THEN Outcome("VFSError", f, {})
    ELSE Outcome("ok", Delete(f, path), {})

\* lines 161-177
local_delete(f, path, recursive, fault) ==
    IF ~Present(f, path) THEN Outcome("ok", f, {})
    ELSE IF fault # "none" THEN Outcome("VFSError", f, {})
    ELSE IF IsDir(f, path) /\ ~recursive /\ Children(f, path) # {}
    THEN Outcome("VFSError", f, {})
    ELSE Outcome("ok", Delete(f, path), {})

(* P115Adapter. fault: "errno" has fs_files answer with errNo # 0, "raises" has it
   raise, "state" has the changing call answer with state false, "rename" has
   fs_rename answer with state false *)

\* lines 100-126 with _get_dir_id and _iter_dir_by_cid of lines 128-186
p115_list_dir(f, path, fault) ==
    IF fault = "raises" THEN Outcome("VFSError", f, {})
    ELSE IF fault = "errno"
    THEN IF path = Root THEN Outcome("ok", f, {}) ELSE Outcome("VFSNotFoundError", f, {})
    ELSE IF ~IsDir(f, path) THEN Outcome("VFSNotFoundError", f, {})
    ELSE Outcome("ok", f, Children(f, path))

\* the topmost directory mkdir(parents=True) has to create for path
TopOf(path) == CHOOSE a \in Ancestors(path) : PosixParent(a) = Root

\* lines 230-269
p115_mkdir(f, path, fault) ==
    IF fault = "raises" THEN Outcome("VFSError", f, {})
    ELSE IF fault = "errno"
    THEN IF PosixParent(path) = Root
         THEN Outcome("ok", [f EXCEPT !.dirs = @ \cup {path}], {})
         ELSE Outcome("VFSNotFoundError", [f EXCEPT !.dirs = @ \cup {TopOf(path)}], {})
    ELSE IF Present(f, path) THEN Outcome("ok", f, {})
    ELSE IF ~MkdirPossible(f, path) THEN Outcome("VFSNotFoundError", f, {})
    ELSE IF fault = "state" THEN Outcome("VFSError", f, {})
    ELSE Outcome("ok", Mkdir(f, path), {})

\* lines 271-328: the entry is moved into the parent of dst and then renamed; nothing
\* is done about an entry that is at dst already, which the drive replaces or keeps
p115_move(f, src, dst, fault, replaces) ==
    IF fault = "raises" THEN Outcome("VFSError", f, {})
    ELSE IF fault = "errno" \/ ~Present(f, src) THEN Outcome("VFSNotFoundError", f, {})
    ELSE \* the parent of dst is made where it is missing
         LET made == IF Present(f, PosixParent(dst)) THEN Outcome("ok", f, {})
                     ELSE p115_mkdir(f, PosixParent(dst), fault)
         IN  IF made.outcome # "ok" THEN made
             ELSE IF ~IsDir(made.fs, PosixParent(dst))
             THEN Outcome("VFSNotFoundError", made.fs, {})
             ELSE IF fault = "state" THEN Outcome("VFSError", made.fs, {})
             ELSE IF fault = "rename" /\ PosixName(src) # PosixName(dst)
             THEN Outcome("ok",
                          Landed(made.fs, src,
                                 PosixJoin(<<PosixParent(dst), PosixName(src)>>), replaces),
                          {})
             ELSE Outcome("ok", Landed(made.fs, src, dst, replaces), {})

\* lines 366-391
p115_delete(f, path, fault) ==
    IF fault = "raises" THEN Outcome("VFSError", f, {})
    ELSE IF fault = "errno" \/ ~Present(f, path) THEN Outcome("ok", f, {})
    ELSE IF fault = "state" THEN Outcome("VFSError", f, {})
    ELSE Outcome("ok", Delete(f, path), {})

(* WebDAVAdapter. fault: the status the server answers every request of the call with,
   in place of the one the state of the store calls for *)

\* lines 152-182
webdav_list_dir(f, path, fault) ==
    IF fault = "401" THEN Outcome("VFSPermissionError", f, {})
    ELSE IF fault # "none" THEN Outcome("VFSError", f, {})
    ELSE IF ~Present(f, path) THEN Outcome("VFSNotFoundError", f, {})
    ELSE IF ~IsDir(f, path) THEN Outcome("ok", f, {})
    ELSE Outcome("ok", f, Children(f, path))

\* lines 244-267
webdav_mkdir(f, path, fault) ==
    IF fault # "none" THEN Outcome("VFSError", f, {})
    ELSE IF Present(f, path) THEN Outcome("ok", f, {})
    ELSE IF ~MkdirPossible(f, path) THEN Outcome("VFSError", f, {})
    ELSE Outcome("ok", Mkdir(f, path), {})

\* lines 269-296: MOVE with Overwrite: T
webdav_move(f, src, dst, fault) ==
    IF fault # "none" THEN Outcome("VFSError", f, {})
    ELSE LET made == IF Present(f, PosixParent(dst)) THEN Outcome("ok", f, {})
                     ELSE webdav_mkdir(f, PosixParent(dst), fault)
         IN  IF made.outcome # "ok" THEN made
             ELSE IF \/ ~Present(made.fs, src)
                     \/ ~IsDir(made.fs, PosixParent(dst))
                     \/ Under(src, dst)
             THEN Outcome("VFSError", made.fs, {})
             ELSE Outcome("ok", Move(made.fs, src, dst), {})

\* lines 327-341
webdav_delete(f, path, fault) ==
    IF fault # "none" THEN Outcome("VFSError", f, {})
    ELSE IF ~Present(f, path) THEN Outcome("ok", f, {})
    ELSE Outcome("ok", Delete(f, path), {})

----------------------------------------------------------------------------
(* VFS adapters: inputs, state and steps *)

Backends == {"local", "115", "webdav"}

AdapterFaults(storage_type) ==
    CASE storage_type = "local"  -> {"none", "denied", "oserror"}
      [] storage_type = "115"    -> {"none", "errno", "raises", "state", "rename"}
      [] storage_type = "webdav" -> {"none", "401", "403", "500"}

Path_d  == <<"/", "d">>
Path_dx == <<"/", "d", "/", "x">>
Path_e  == <<"/", "e">>
Path_ex == <<"/", "e", "/", "x">>
Path_ey == <<"/", "e", "/", "y">>
Path_nz == <<"/", "n", "/", "z">>

AdapterPaths == {Root, Path_d, Path_dx, Path_e, Path_ex, Path_ey, Path_nz}

\* the files moved: present ones and an absent one
MoveSources == {Path_dx, Path_ex, Path_ey}

NoAdapterCall ==
    [call |-> "", path |-> <<>>, dst |-> <<>>, recursive |-> FALSE, fault |-> "none",
     outcome |-> "", value |-> {}, before |-> EmptyFS]

InitAdapters ==
    /\ rules = <<>>
    /\ engine = EngineInit("off", RecognitionResult(File_A, NoMedia, "low"), "local")
    /\ RecognizerUnused
    /\ items = <<>>
    /\ history = <<>>
    /\ calls = NoCalls
    /\ faults = 0
    /\ fs = [files |-> {<<Path_dx, 1>>, <<Path_ex, 2>>}, dirs |-> {Path_d, Path_e}]
    /\ \E storage_type \in Backends : op = [storage_type |-> storage_type, ncalls |-> 0]
    /\ ret = NoAdapterCall

\* the call is made: its outcome is kept and the filesystem is what it left
Called(call, path, dst, recursive, fault, out) ==
    /\ op.ncalls < MaxAdapterCalls
    /\ ret' = [call |-> call, path |-> path, dst |-> dst, recursive |-> recursive,
               fault |-> fault, outcome |-> out.outcome, value |-> out.value,
               before |-> fs]
    /\ fs' = out.fs
    /\ op' = [op EXCEPT !.ncalls = @ + 1]
    /\ UNCHANGED <<rules, engine, recognizerVars, items, history, calls, faults>>

\* the adapter of the storage type does the call (vfs/factory.py)
adapter_list_dir(storage_type, f, path, fault) ==
    CASE storage_type = "local"  -> local_list_dir(f, path, fault)
      [] storage_type = "115"    -> p115_list_dir(f, path, fault)
      [] storage_type = "webdav" -> webdav_list_dir(f, path, fault)

adapter_mkdir(storage_type, f, path, fault) ==
    CASE storage_type = "local"  -> local_mkdir(f, path, fault)
      [] storage_type = "115"    -> p115_mkdir(f, path, fault)
      [] storage_type = "webdav" -> webdav_mkdir(f, path, fault)

adapter_move(storage_type, f, src, dst, fault, replaces) ==
    CASE storage_type = "local"  -> local_move(f, src, dst, fault)
      [] storage_type = "115"    -> p115_move(f, src, dst, fault, replaces)
      [] storage_type = "webdav" -> webdav_move(f, src, dst, fault)

adapter_delete(storage_type, f, path, recursive, fault) ==
    CASE storage_type = "local"  -> local_delete(f, path, recursive, fault)
      [] storage_type = "115"    -> p115_delete(f, path, fault)
      [] storage_type = "webdav" -> webdav_delete(f, path, fault)

AdapterListDir(path, fault) ==
    Called("list_dir", path, <<>>, FALSE, fault,
           adapter_list_dir(op.storage_type, fs, path, fault))

AdapterMkdir(path, fault) ==
    Called("mkdir", path, <<>>, FALSE, fault,
           adapter_mkdir(op.storage_type, fs, path, fault))

\* the sources moved are files
AdapterMove(src, dst, fault, replaces) ==
    /\ src \notin fs.dirs
    /\ Called("move", src, dst, FALSE, fault,
              adapter_move(op.storage_type, fs, src, dst, fault, replaces))

AdapterDelete(path, recursive, fault) ==
    Called("delete", path, <<>>, recursive, fault,
           adapter_delete(op.storage_type, fs, path, recursive, fault))

NextAdapters ==
    \/ \E path \in AdapterPaths, fault \in AdapterFaults(op.storage_type) :
          AdapterListDir(path, fault)
    \/ \E path \in AdapterPaths \ {Root}, fault \in AdapterFaults(op.storage_type) :
          AdapterMkdir(path, fault)
    \/ \E src \in MoveSources, dst \in AdapterPaths \ {Root},
          fault \in AdapterFaults(op.storage_type), replaces \in BOOLEAN :
          AdapterMove(src, dst, fault, replaces)
    \/ \E path \in AdapterPaths \ {Root}, recursive \in BOOLEAN,
          fault \in AdapterFaults(op.storage_type) :
          AdapterDelete(path, recursive, fault)

SpecAdapters == InitAdapters /\ [][NextAdapters]_vars

----------------------------------------------------------------------------
(* VFS adapters: properties *)

\* C23: with the backend answering as the state of the store calls for, mkdir of a path
\* that is a directory and delete of a path that is absent succeed and leave the
\* filesystem as it was, on each backend; and a mkdir or a delete that has succeeded,
\* made once more, succeeds again and changes nothing
C23_MkdirAndDeleteIdempotent ==
    (ret.fault = "none" /\ ret.call \in {"mkdir", "delete"})
    => /\ (ret.call = "mkdir" /\ IsDir(ret.before, ret.path))
          => ret.outcome = "ok" /\ fs = ret.before
       /\ (ret.call = "delete" /\ ~Present(ret.before, ret.path))
          => ret.outcome = "ok" /\ fs = ret.before
       /\ (ret.call = "mkdir" /\ ret.outcome = "ok")
          => adapter_mkdir(op.storage_type, fs, ret.path, "none") = Outcome("ok", fs, {})
       /\ (ret.call = "delete" /\ ret.outcome = "ok")
          => adapter_delete(op.storage_type, fs, ret.path, ret.recursive, "none")
                = Outcome("ok", fs, {})

\* on the local disk a file was deleted, and the delete was then made once more
C23_Witness ==
    /\ op.storage_type = "local"
    /\ op.ncalls = 2
    /\ ret.call = "delete" /\ ret.fault = "none" /\ ret.outcome = "ok"
    /\ ret.path = Path_dx
    /\ ~Present(ret.before, Path_dx)
    /\ fs = ret.before
    /\ fs # [files |-> {<<Path_dx, 1>>, <<Path_ex, 2>>}, dirs |-> {Path_d, Path_e}]

\* C24: a failed adapter call raises not-found, permission or the generic adapter
\* failure; it is not-found when the path of a list_dir or the source of a move is
\* absent, permission when the backend denied access, and the adapter failure for any
\* other backend error; a backend error while listing is never answered with a listing
C24_ThreeCategories ==
    ret.call # ""
    => /\ ret.outcome \in {"ok", "VFSNotFoundError", "VFSPermissionError", "VFSError"}
       /\ (/\ ret.fault = "none"
           /\ ret.call \in {"list_dir", "move"}
           /\ ~Present(ret.before, ret.path))
          => ret.outcome = "VFSNotFoundError"
       /\ (ret.fault \in {"denied", "401", "403"} /\ ret.outcome # "ok")
          => ret.outcome = "VFSPermissionError"
       /\ (ret.call = "list_dir" /\ ret.fault \in {"oserror", "errno", "raises", "500"})
          => ret.outcome = "VFSError"

\* C25: after a move that succeeded, dst holds the content src held and nothing else,
\* dst is not a directory, and src is gone
C25_MoveReplaces ==
    (ret.call = "move" /\ ret.outcome = "ok" /\ ret.path # ret.dst)
    => /\ \E x \in ret.before.files :
             /\ x[1] = ret.path
             /\ {y \in fs.files : y[1] = ret.dst} = {<<ret.dst, x[2]>>}
       /\ ret.dst \notin fs.dirs
       /\ ~Present(fs, ret.path)

----------------------------------------------------------------------------
(* Scheduler: detections of one job, the batching window, and the cancellation of the
   life-event monitor. items is _pending_files of the job, tasks the _handle_detected_file
   coroutines, ret the batches handed to _process_detected_files, calls the adapter
   operations and history the history records of the items *)

BatchingWindow == 5

MaxDetections == 2

DetectedPaths == {"a", "b"}

\* the events one poll of the life-event feed returns
EventLists(n) == UNION {[1..k -> DetectedPaths] : k \in 1..n}

Monitor(source) ==
    [source |-> source, feed |-> <<>>, busy |-> 0, cancelled |-> FALSE, arrivals |-> <<>>]

\* a _handle_detected_file coroutine that has put its path into the pending list and
\* sleeps through the batching window (lines 136-144)
Handler(path, wake) ==
    [pc |-> "sleeping", path |-> path, wake |-> wake, batch |-> <<>>, i |-> 0,
     completes |-> FALSE]

InitScheduler ==
    /\ rules = <<>>
    /\ engine = EngineInit("off", RecognitionResult(File_A, NoMedia, "low"), "local")
    /\ llm = <<>> /\ tmdb = <<>> /\ cache = <<>>
    /\ fs = EmptyFS
    /\ faults = 0
    /\ clock = 0
    /\ tasks = <<>>
    /\ items = <<>>
    /\ history = <<>>
    /\ calls = <<>>
    /\ ret = <<>>
    /\ \E source \in {"watchdog", "life_event"} : op = Monitor(source)

\* watchdog_monitor.py lines 45-92: the observer thread schedules _emit_event on the
\* loop for each file, a coroutine of its own, which awaits _handle_detected_file
WatchdogDetected(path) ==
    /\ op.source = "watchdog"
    /\ Len(op.arrivals) < MaxDetections
    /\ tasks' = Append(tasks, Handler(path, clock + BatchingWindow))
    /\ items' = Append(items, path)
    /\ op' = [op EXCEPT !.arrivals = Append(@, [path |-> path, at |-> clock])]
    /\ UNCHANGED <<rules, engine, clock, llm, tmdb, cache, fs, history, ret, calls, faults>>

\* life_event_monitor.py lines 149-167: one poll returns the events of the burst
LifeEventsPolled(events) ==
    /\ op.source = "life_event"
    /\ op.arrivals = <<>>
    /\ ~op.cancelled
    /\ op' = [op EXCEPT !.feed = events,
                        !.arrivals = [k \in 1..Len(events) |->
                                         [path |-> events[k], at |-> clock]]]
    /\ UNCHANGED <<rules, engine, clock, llm, tmdb, cache, tasks, items, fs, history, ret, calls,
                   faults>>

\* life_event_monitor.py lines 165-166 and 172-224: the loop over the events awaits
\* _process_event, which awaits _handle_detected_file, before it takes the next event
LifeEventProcessed ==
    /\ op.source = "life_event"
    /\ op.feed # <<>>
    /\ op.busy = 0
    /\ ~op.cancelled
    /\ tasks' = Append(tasks, Handler(Head(op.feed), clock + BatchingWindow))
    /\ items' = Append(items, Head(op.feed))
    /\ op' = [op EXCEPT !.feed = Tail(@), !.busy = Len(tasks) + 1]
    /\ UNCHANGED <<rules, engine, clock, llm, tmdb, cache, fs, history, ret, calls, faults>>

\* the handler t has come to its end: the monitor that awaited it goes on
Released(t) == IF op.busy = t THEN [op EXCEPT !.busy = 0] ELSE op

\* scheduler/service.py lines 146-150: after the sleep the pending list is taken; with
\* files in it _process_detected_files begins (recognition is awaited)
Flush(t) ==
    /\ t \in 1..Len(tasks)
    /\ tasks[t].pc = "sleeping"
    /\ clock >= tasks[t].wake
    /\ items' = <<>>
    /\ IF items # <<>>
       THEN /\ tasks' = [tasks EXCEPT ![t].pc = "recognizing", ![t].batch = items]
            /\ ret' = Append(ret, items)
            /\ op' = op
       ELSE /\ tasks' = [tasks EXCEPT ![t].pc = "done"]
            /\ ret' = ret
            /\ op' = Released(t)
    /\ UNCHANGED <<rules, engine, clock, llm, tmdb, cache, fs, history, calls, faults>>

\* transfer/service.py lines 174-192: what the batch awaits comes back and the next
\* operation is begun: recognition, then mkdir, move and the history record of each item
ItemStep(t) ==
    /\ t \in 1..Len(tasks)
    /\ tasks[t].pc \in {"recognizing", "mkdir", "move", "record"}
    /\ LET task == tasks[t]
       IN  CASE task.pc = "recognizing" ->
                   /\ tasks' = [tasks EXCEPT ![t].pc = "mkdir", ![t].i = 1]
                   /\ UNCHANGED <<calls, history, op>>
             [] task.pc = "mkdir" ->
                   /\ tasks' = [tasks EXCEPT ![t].pc = "move"]
                   /\ calls' = Append(calls, [call |-> "mkdir", t |-> t, i |-> task.i])
                   /\ UNCHANGED <<history, op>>
             [] task.pc = "move" ->
                   /\ tasks' = [tasks EXCEPT ![t].pc = "record"]
                   /\ calls' = Append(calls, [call |-> "move", t |-> t, i |-> task.i])
                   /\ UNCHANGED <<history, op>>
             [] task.pc = "record" ->
                   /\ history' = Append(history, [t |-> t, i |-> task.i,
                                                  path |-> task.batch[task.i]])
                   /\ IF task.i < Len(task.batch)
                      THEN /\ tasks' = [tasks EXCEPT ![t].pc = "mkdir", ![t].i = @ + 1]
                           /\ op' = op
                      ELSE /\ tasks' = [tasks EXCEPT ![t].pc = "done"]
                           /\ op' = Released(t)
                   /\ calls' = calls
    /\ UNCHANGED <<rules, engine, clock, llm, tmdb, cache, items, fs, ret, faults>>

\* life_event_monitor.py lines 87-127: stop_monitoring of the last job, or stop_all,
\* cancels the monitor task; CancelledError is raised where the task awaits, inside the
\* handler it is running if there is one; an adapter operation that was under way in a
\* worker thread or on the wire is finished or not, and nothing follows it
MonitorCancelled ==
    /\ op.source = "life_event"
    /\ op.arrivals # <<>>
    /\ ~op.cancelled
    /\ op' = [op EXCEPT !.cancelled = TRUE, !.busy = 0, !.feed = <<>>]
    /\ IF op.busy = 0
       THEN UNCHANGED <<tasks, calls>>
       ELSE \E completes \in BOOLEAN :
               LET task == tasks[op.busy]
               IN  /\ tasks' = [tasks EXCEPT ![op.busy].pc = "cancelled",
                                             ![op.busy].completes = completes,
                                             ![op.busy].wake = 0]
                   /\ calls' = IF completes /\ task.pc \in {"mkdir", "move"}
                               THEN Append(calls, [call |-> task.pc, t |-> op.busy,
                                                   i |-> task.i])
                               ELSE calls
    /\ UNCHANGED <<rules, engine, clock, llm, tmdb, cache, items, fs, history, ret, faults>>

NextScheduler ==
    \/ Tick(MaxDetections * BatchingWindow)
    \/ \E path \in DetectedPaths : WatchdogDetected(path)
    \/ \E events \in EventLists(MaxDetections) : LifeEventsPolled(events)
    \/ LifeEventProcessed
    \/ \E t \in 1..MaxDetections : Flush(t)
    \/ \E t \in 1..MaxDetections : ItemStep(t)
    \/ MonitorCancelled

SpecScheduler == InitScheduler /\ [][NextScheduler]_vars

----------------------------------------------------------------------------
(* Scheduler: properties *)

\* every detection has been handled to the end
AllHandled ==
    /\ op.arrivals # <<>>
    /\ op.feed = <<>>
    /\ ~op.cancelled
    /\ Len(tasks) = Len(op.arrivals)
    /\ \A t \in 1..Len(tasks) : tasks[t].pc = "done"

\* all detections came within the batching window that the first one opened
WithinWindow ==
    \A k \in 1..Len(op.arrivals) : op.arrivals[k].at < op.arrivals[1].at + BatchingWindow

\* C26: the detections of a burst that arrived within the batching window are processed
\* as one batch, which holds all of them, whatever the source of the detections
C26_BurstIsOneBatch ==
    (AllHandled /\ WithinWindow)
    => /\ Len(ret) = 1
       /\ ret[1] = [k \in 1..Len(op.arrivals) |-> op.arrivals[k].path]

\* C27: when the monitor task is cancelled while a batch is in flight, the item whose
\* operations had begun has its directory made, its file moved and its history record
\* written
C27_ItemInProgressCompletes ==
    \A t \in 1..Len(tasks) :
        (tasks[t].pc = "cancelled" /\ tasks[t].i > 0)
        => /\ \E c \in 1..Len(calls) : calls[c] = [call |-> "mkdir", t |-> t, i |-> tasks[t].i]
           /\ \E c \in 1..Len(calls) : calls[c] = [call |-> "move", t |-> t, i |-> tasks[t].i]
           /\ \E h \in 1..Len(history) : history[h].t = t /\ history[h].i = tasks[t].i

----------------------------------------------------------------------------
(* Event bus: subscribe, subscribe_all and unsubscribe before and during one emit. llm
   is the bus, tasks the emit, tmdb the handler invocations of that emit, clock the
   number of subscriptions made *)

MaxSubscriptions == 3

EventTypes == {"transfer_completed", "job_completed"}

HandlerIds == 1..2

\* lines 80-83; a type without an entry in _handlers has no handlers
EventBus ==
    [_handlers |-> [event_type \in EventTypes |-> <<>>], _global_handlers |-> <<>>]

\* list.remove: the first occurrence goes
RemoveFirst(s, x) ==
    IF \A k \in 1..Len(s) : s[k] # x THEN s
    ELSE LET k == CHOOSE j \in 1..Len(s) : s[j] = x /\ \A m \in 1..(j - 1) : s[m] # x
         IN  SubSeq(s, 1, k - 1) \o SubSeq(s, k + 1, Len(s))

NoEmit ==
    [pc |-> "idle", event_type |-> "", handlers |-> <<>>, k |-> 1, bus |-> EventBus,
     raised |-> FALSE]

InitEvents ==
    /\ rules = <<>>
    /\ engine = EngineInit("off", RecognitionResult(File_A, NoMedia, "low"), "local")
    /\ TransferUnused
    /\ clock = 0
    /\ cache = <<>>
    /\ llm = EventBus
    /\ tmdb = <<>>
    /\ tasks = NoEmit

\* lines 85-110
subscribe(event_type, handler) ==
    /\ tasks.pc # "returned"
    /\ clock < MaxSubscriptions
    /\ clock' = clock + 1
    /\ llm' = [llm EXCEPT !._handlers[event_type] = Append(@, handler)]
    /\ UNCHANGED <<rules, engine, transferVars, cache, tmdb, tasks>>

\* lines 112-131
subscribe_all(handler) ==
    /\ tasks.pc # "returned"
    /\ clock < MaxSubscriptions
    /\ clock' = clock + 1
    /\ llm' = [llm EXCEPT !._global_handlers = Append(@, handler)]
    /\ UNCHANGED <<rules, engine, transferVars, cache, tmdb, tasks>>

\* lines 104-108 and 125-129: the unsubscribe functions handed out
unsubscribe(event_type, handler, global) ==
    /\ tasks.pc # "returned"
    /\ IF global
       THEN /\ \E k \in 1..Len(llm._global_handlers) : llm._global_handlers[k] = handler
            /\ llm' = [llm EXCEPT !._global_handlers = RemoveFirst(@, handler)]
       ELSE /\ \E k \in 1..Len(llm._handlers[event_type]) :
                  llm._handlers[event_type][k] = handler
            /\ llm' = [llm EXCEPT !._handlers[event_type] = RemoveFirst(@, handler)]
    /\ UNCHANGED <<rules, engine, transferVars, clock, cache, tmdb, tasks>>

\* lines 147-168: the event is made and the handlers to call are put into a new list
EmitBegin(event_type) ==
    /\ tasks.pc = "idle"
    /\ tasks' = [NoEmit EXCEPT
                    !.pc = "loop", !.event_type = event_type, !.bus = llm,
                    !.handlers = llm._handlers[event_type] \o llm._global_handlers]
    /\ tmdb' = <<>>
    /\ UNCHANGED <<rules, engine, transferVars, clock, cache, llm>>

\* a loop without the try: the exception of a handler ends emit
InvokeHandler_propagating ==
    /\ tasks.pc = "loop"
    /\ tasks.k <= Len(tasks.handlers)
    /\ \E raises \in BOOLEAN :
          /\ tmdb' = Append(tmdb, [handler |-> tasks.handlers[tasks.k], raises |-> raises])
          /\ tasks' = IF raises THEN [tasks EXCEPT !.pc = "returned", !.raised = TRUE]
                      ELSE [tasks EXCEPT !.k = @ + 1]
    /\ UNCHANGED <<rules, engine, transferVars, clock, cache, llm>>

\* lines 170-177: the next handler is called, and awaited if it is a coroutine; what it
\* raises is logged
InvokeHandler ==
    /\ tasks.pc = "loop"
    /\ tasks.k <= Len(tasks.handlers)
    /\ \E raises \in BOOLEAN :
          tmdb' = Append(tmdb, [handler |-> tasks.handlers[tasks.k], raises |-> raises])
    /\ tasks' = [tasks EXCEPT !.k = @ + 1]
    /\ UNCHANGED <<rules, engine, transferVars, clock, cache, llm>>

\* line 170: the loop is over and emit returns
EmitEnd ==
    /\ tasks.pc = "loop"
    /\ tasks.k > Len(tasks.handlers)
    /\ tasks' = [tasks EXCEPT !.pc = "returned"]
    /\ UNCHANGED <<rules, engine, transferVars, clock, cache, llm, tmdb>>

NextEvents ==
    \/ \E event_type \in EventTypes, handler \in HandlerIds : subscribe(event_type, handler)
    \/ \E handler \in HandlerIds : subscribe_all(handler)
    \/ \E event_type \in EventTypes, handler \in HandlerIds, global \in BOOLEAN :
          unsubscribe(event_type, handler, global)
    \/ \E event_type \in EventTypes : EmitBegin(event_type)
    \/ InvokeHandler
    \/ EmitEnd

SpecEvents == InitEvents /\ [][NextEvents]_vars

\* C28: when emit has returned it has not raised, and the handlers it called are, one
\* call for each subscription, those subscribed to the type of the event when emit was
\* called, in the order they subscribed, and then the global ones, whichever of them raised
C28_EveryHandlerOnce ==
    tasks.pc = "returned"
    => /\ ~tasks.raised
       /\ [k \in 1..Len(tmdb) |-> tmdb[k].handler]
             = tasks.bus._handlers[tasks.event_type] \o tasks.bus._global_handlers

\* an emit with two handlers of the type and a global one, of which the first raised
C28_Witness ==
    /\ tasks.pc = "returned"
    /\ Len(tasks.bus._handlers[tasks.event_type]) = 2
    /\ Len(tasks.bus._global_handlers) = 1
    /\ Len(tmdb) = 3
    /\ tmdb[1].raises /\ ~tmdb[2].raises /\ tmdb[3].raises

----------------------------------------------------------------------------
(* Names and destination of one recognized file: generate_names called on  *)
(* its own, and the route of dry_run followed by the destination of        *)
(* execute_transfer.  tasks is the call: its inputs, its position and what *)
(* it has computed so far.                                                 *)

Name_Title == <<"T", "i", "t", "l", "e">>
Ext_mkv == <<"m", "k", "v">>
Str_Season02 == <<"S", "e", "a", "s", "o", "n", " ", "0", "2">>

\* rule.target_path templates
Target_m == <<"/", "m">>
Target_m_title == <<"/", "m", "/", "{", "t", "i", "t", "l", "e", "}">>

\* the results names are generated for
NamingResults ==
    {RecognitionResult(FileInfo(Name_A2020, <<"/", "i", "/">> \o Name_A2020, extension),
                       media_info, "high") :
        extension \in {<<>>, Ext_mkv, <<".">> \o Ext_mkv},
        media_info \in {NoMedia} \cup
            {MediaInfo(mt, title, year, season, episode, tmdb_id, TMDB_Empty) :
                mt \in {"movie", "tv"}, title \in {<<"T">>, Name_Title},
                year \in {PyNone, PyInt(2020)}, season \in {PyNone, PyInt(2)},
                episode \in {PyNone, PyInt(5)}, tmdb_id \in {PyNone, PyInt(99)}}}

NoNames == Names(PyNone, PyNone, PyNone)

InitNaming ==
    /\ rules = <<>>
    /\ engine = EngineInit("off", RecognitionResult(File_A, NoMedia, "low"), "local")
    /\ TransferUnused
    /\ clock = 0
    /\ llm = <<>>
    /\ tmdb = <<>>
    /\ \E result \in NamingResults, pattern_name \in {"", "emby_standard", "plex_standard"},
          target_path \in {Target_m, Target_m_title} :
          tasks = [pc |-> "idle", result |-> result, pattern_name |-> pattern_name,
                   rule_target_path |-> target_path, names |-> NoNames,
                   target_file_path |-> <<>>]
    /\ cache = <<>>

\* naming_service.generate_names(result, pattern_name) called on its own
GenerateNames ==
    /\ tasks.pc = "idle"
    /\ tasks' = [tasks EXCEPT !.pc = "named",
                              !.names = generate_names(tasks.result, tasks.pattern_name)]
    /\ UNCHANGED <<rules, engine, transferVars, clock, llm, tmdb, cache>>

\* dry_run, lines 63-82, for a result its rule matched: the route is written
\* into the result
DryRunRoute ==
    /\ tasks.pc = "idle"
    /\ \E names \in {generate_names(tasks.result, tasks.pattern_name)} :
          tasks' = [tasks EXCEPT
                       !.pc = "routed",
                       !.names = names,
                       !.result.target_path =
                           PyStr(_substitute_path_template(tasks.rule_target_path,
                                                           tasks.result)),
                       !.result.target_folder_name = names.folder_name,
                       !.result.target_file_name = names.file_name]
    /\ UNCHANGED <<rules, engine, transferVars, clock, llm, tmdb, cache>>

\* execute_transfer, lines 163-172, for a routed item: the names are generated
\* anew, with no pattern name, and joined to the item's target path
ExecuteDestination ==
    /\ tasks.pc = "routed"
    /\ Truthy(tasks.result.target_path)
    /\ \E names \in {generate_names(tasks.result, "")} :
          tasks' = [tasks EXCEPT
                       !.pc = "destined",
                       !.names = names,
                       !.target_file_path =
                           _build_full_target_path(tasks.result.target_path.s, names,
                                                   tasks.result.media_info.media_type)]
    /\ UNCHANGED <<rules, engine, transferVars, clock, llm, tmdb, cache>>

NextNaming ==
    \/ GenerateNames
    \/ DryRunRoute
    \/ ExecuteDestination

SpecNaming == InitNaming /\ [][NextNaming]_vars

\* "<title> (<year>)"
TitleAndYear(media_info) ==
    media_info.title \o <<" ", "(">> \o IntStr(media_info.year.i) \o <<")">>

\* "<title> (<year>) {tmdb-<id>}"
TitleYearAndId(media_info) ==
    TitleAndYear(media_info) \o <<" ", "{", "t", "m", "d", "b", "-">>
        \o IntStr(media_info.tmdb_id.i) \o <<"}">>

\* the extension without its leading dot
BareExtension(file_info) ==
    IF file_info.extension[1] = "." THEN Tail(file_info.extension) ELSE file_info.extension

\* a result of the given type whose title, year and catalog id are known and
\* whose file has an extension
FullyKnown(result, media_type) ==
    /\ result.media_info.present
    /\ result.media_info.media_type = media_type
    /\ Truthy(result.media_info.year)
    /\ Truthy(result.media_info.tmdb_id)
    /\ result.file_info.extension # <<>>

\* C29: generate_names with the built-in preset, for a movie with a title, a
\* year, a catalog id and a file extension, returns the folder name
\* "<title> (<year>) {tmdb-<id>}" with single braces and the file name
\* "<title> (<year>).<ext>" with a single dot before the extension
C29_BuiltInPresetNames ==
    (/\ tasks.pc = "named"
     /\ tasks.pattern_name \in {"", "emby_standard"}
     /\ FullyKnown(tasks.result, "movie"))
    => /\ tasks.names.folder_name = PyStr(TitleYearAndId(tasks.result.media_info))
       /\ tasks.names.file_name =
              PyStr(TitleAndYear(tasks.result.media_info) \o <<".">>
                    \o BareExtension(tasks.result.file_info))

\* C30: a TV result of season 2, episode 5 with title T, year Y, catalog id I
\* and extension .mkv, routed by a rule with the emby_standard preset to the
\* target path P, is transferred to
\* P/T (Y) {tmdb-I}/Season 02/T (Y) - S02E05.mkv
C30_EpisodeDestination ==
    (/\ tasks.pc = "destined"
     /\ tasks.pattern_name = "emby_standard"
     /\ FullyKnown(tasks.result, "tv")
     /\ tasks.result.media_info.season = PyInt(2)
     /\ tasks.result.media_info.episode = PyInt(5)
     /\ tasks.result.file_info.extension = <<".">> \o Ext_mkv)
    => tasks.target_file_path =
           PosixJoin(<<tasks.result.target_path.s,
                       TitleYearAndId(tasks.result.media_info),
                       Str_Season02,
                       TitleAndYear(tasks.result.media_info)
                           \o <<" ", "-", " ", "S", "0", "2", "E", "0", "5", ".">>
                           \o Ext_mkv>>)

----------------------------------------------------------------------------
(* Pattern extractor (services/recognizer/pattern_extractor.py).  A regular  *)
(* expression is translated into the match it finds: re.search takes the     *)
(* leftmost position at which the pattern matches, and every \d+ of these    *)
(* patterns is followed by something that is no digit, so it takes the whole *)
(* run of digits.  A CJK character is written by its code point.             *)

Zh_di    == "U+7B2C"
Zh_ji    == "U+5B63"
Zh_episode == "U+96C6"

\* CHINESE_NUMERALS, lines 15-21
CHINESE_NUMERALS ==
    [c \in {"U+96F6", "U+3007", "U+4E00", "U+58F9", "U+4E8C", "U+8D30", "U+4E24", "U+4E09",
            "U+53C1", "U+56DB", "U+8086", "U+4E94", "U+4F0D", "U+516D", "U+9646", "U+4E03",
            "U+67D2", "U+516B", "U+634C", "U+4E5D", "U+7396", "U+5341", "U+62FE", "U+767E",
            "U+4F70"} |->
        CASE c \in {"U+96F6", "U+3007"} -> 0
          [] c \in {"U+4E00", "U+58F9"} -> 1
          [] c \in {"U+4E8C", "U+8D30", "U+4E24"} -> 2
          [] c \in {"U+4E09", "U+53C1"} -> 3
          [] c \in {"U+56DB", "U+8086"} -> 4
          [] c \in {"U+4E94", "U+4F0D"} -> 5
          [] c \in {"U+516D", "U+9646"} -> 6
          [] c \in {"U+4E03", "U+67D2"} -> 7
          [] c \in {"U+516B", "U+634C"} -> 8
          [] c \in {"U+4E5D", "U+7396"} -> 9
          [] c \in {"U+5341", "U+62FE"} -> 10
          [] c \in {"U+767E", "U+4F70"} -> 100]

\* the character class of the 第..集 check of extract_episode_info, line 230
PlainNumerals ==
    {"U+4E00", "U+4E8C", "U+4E09", "U+56DB", "U+4E94", "U+516D", "U+4E03", "U+516B",
     "U+4E5D", "U+5341"}

\* the character class of the season and episode patterns, lines 44-45 and 53
PatternNumerals ==
    PlainNumerals \cup {"U+58F9", "U+8D30", "U+53C1", "U+8086", "U+4F0D", "U+9646", "U+67D2",
                        "U+634C", "U+7396", "U+62FE"}

\* \W over the alphabet the model uses; every other character is \w
NonWordChars == {" ", ".", "-", "[", "]", "(", ")", "+"}

\* the character at position i in lower case, "" outside the string
CharAt(s, i) == IF i \in 1..Len(s) THEN Lower(s[i]) ELSE ""

IsDigitAt(s, i) == i \in 1..Len(s) /\ s[i] \in DigitChars

IsWordAt(s, i) == i \in 1..Len(s) /\ s[i] \notin NonWordChars

\* \b in front of position i
WordBoundary(s, i) == IsWordAt(s, i - 1) # IsWordAt(s, i)

RECURSIVE RunEnd(_, _, _)
\* the last position of the run of characters of class that begins at i;
\* i - 1 when there is none
RunEnd(s, i, class) ==
    IF i \in 1..Len(s) /\ s[i] \in class THEN RunEnd(s, i + 1, class) ELSE i - 1

DigitRunEnd(s, i) == RunEnd(s, i, DigitChars)

\* int(s[a..b]) for a run of digits
IntAt(s, a, b) == DigitsVal(SubSeq(s, a, b))

\* the alternatives of REMOVE_PATTERNS[k], k in 1..4, in lower case, lines 104-107
RemoveLiterals(k) ==
    CASE k = 1 -> {n \o p : n \in {<<"1", "0", "8", "0">>, <<"7", "2", "0">>, <<"5", "7", "6">>,
                                   <<"4", "8", "0">>, <<"3", "6", "0">>, <<"2", "4", "0">>,
                                   <<"2", "1", "6", "0">>, <<"1", "4", "4", "0">>,
                                   <<"4", "3", "2", "0">>},
                            p \in {<<>>, <<"p">>, <<"i">>}}
      [] k = 2 -> {<<c>> \o d \o <<"2", "6", n>> : c \in {"h", "x"}, d \in {<<>>, <<".">>},
                                                n \in {"4", "5"}}
                  \cup {<<"h", "e", "v", "c">>, <<"a", "v", "c">>}
      [] k = 3 -> {<<"w", "e", "b", "-", "d", "l">>, <<"w", "e", "b", "r", "i", "p">>,
                   <<"b", "l", "u", "r", "a", "y">>, <<"h", "d", "t", "v">>,
                   <<"d", "v", "d", "r", "i", "p">>, <<"r", "e", "m", "u", "x">>}
      [] k = 4 -> {<<"a", "a", "c">>, <<"a", "c", "3">>, <<"d", "t", "s">>,
                   <<"f", "l", "a", "c">>, <<"t", "r", "u", "e", "h", "d">>,
                   <<"a", "t", "m", "o", "s">>}

\* the length of the match of REMOVE_PATTERNS[k] at position i, 0 for none;
\* every pattern begins with \b, and the fifth is \b\d+\.\d+\s*(?:GB|MB)\b
RemoveMatchLen(s, i, k) ==
    IF ~WordBoundary(s, i) THEN 0
    ELSE IF k = 5
    THEN LET a == DigitRunEnd(s, i)
             b == DigitRunEnd(s, a + 2)
             c == RunEnd(s, b + 1, {" "})
         IN  IF /\ a >= i /\ CharAt(s, a + 1) = "." /\ b >= a + 2
                /\ CharAt(s, c + 1) \in {"g", "m"} /\ CharAt(s, c + 2) = "b"
                /\ WordBoundary(s, c + 3)
             THEN c + 2 - i + 1 ELSE 0
    ELSE LET found == {l \in RemoveLiterals(k) :
                          /\ CharAt(s, i) = l[1]
                          /\ i + Len(l) - 1 <= Len(s)
                          /\ WordBoundary(s, i + Len(l))
                          /\ LowerStr(SubSeq(s, i, i + Len(l) - 1)) = l}
         IN  IF found = {} THEN 0 ELSE Len(CHOOSE l \in found : TRUE)

RECURSIVE RemoveFrom(_, _, _)
RECURSIVE RemoveStep(_, _, _, _)
\* re.sub(REMOVE_PATTERNS[k], ' ', s, flags=re.IGNORECASE), from position i on
RemoveFrom(s, i, k) ==
    IF i > Len(s) THEN <<>>
    ELSE CHOOSE rest \in {RemoveStep(s, i, k, n) : n \in {RemoveMatchLen(s, i, k)}} : TRUE

\* a match of length n at position i is replaced, any other character is kept
RemoveStep(s, i, k, n) ==
    CHOOSE rest \in {IF n > 0 THEN <<" ">> \o RemoveFrom(s, j, k)
                     ELSE <<s[i]>> \o RemoveFrom(s, j, k) :
                        j \in {IF n > 0 THEN i + n ELSE i + 1}} : TRUE

RECURSIVE StripSpaces(_)
\* s.strip()
StripSpaces(s) ==
    IF s = <<>> THEN s
    ELSE IF s[1] = " " THEN StripSpaces(Tail(s))
    ELSE IF s[Len(s)] = " " THEN StripSpaces(SubSeq(s, 1, Len(s) - 1))
    ELSE s

\* lines 167-177: the five substitutions in their order, then the spaces
_normalize_text(text) ==
    CHOOSE normalized \in
        {StripSpaces(s6) :
            s6 \in {CollapseSpaces(s5) :
            s5 \in {RemoveFrom(s4, 1, 5) :
            s4 \in {RemoveFrom(s3, 1, 4) :
            s3 \in {RemoveFrom(s2, 1, 3) :
            s2 \in {RemoveFrom(s1, 1, 2) :
            s1 \in {RemoveFrom(text, 1, 1)}}}}}}} : TRUE

_parse_chinese_number(text) ==
    LET step(acc, char) ==
            IF char \notin DOMAIN CHINESE_NUMERALS THEN acc
            ELSE LET val == CHINESE_NUMERALS[char]
                     current == IF acc.current = 0 THEN 1 ELSE acc.current
                 IN  IF val \in {10, 100}
                     THEN [result |-> acc.result + current * val, current |-> 0]
                     ELSE [acc EXCEPT !.current = val]
        RECURSIVE loop(_, _)
        loop(acc, k) == IF k > Len(text) THEN acc ELSE loop(step(acc, text[k]), k + 1)
        end == loop([result |-> 0, current |-> 0], 1)
    IN  IF text = <<>> THEN 0
        ELSE IF Range(text) \subseteq DigitChars THEN DigitsVal(text)
        ELSE end.result + end.current

NoGroups == [ok |-> FALSE, groups |-> <<>>]

Groups(g) == [ok |-> TRUE, groups |-> g]

\* position i, or the one after it when the character at i is c: an optional
\* letter of a pattern
Opt(s, i, c) == IF CharAt(s, i) = c THEN i + 1 ELSE i

\* the match of a pattern of the extractor that begins at position i, with
\* the text of its groups:
\*   multi_1    [Ss](\d+)[Ee](\d+)-[Ee]?(\d+)          episode_1  [Ss](\d+)[Ee][Pp]?(\d+)
\*   multi_2    [Ee][Pp]?(\d+)-[Ee]?[Pp]?(\d+)         episode_2  [Ss](\d+)\.?[Ee](\d+)
\*   season_1   [Ss](?:eason\s*)?(\d+)                 episode_3  (\d+)[xX](\d+)
\*   season_2   the numerals or digits between U+7B2C and U+5B63
\*   season_3   the numerals in front of U+5B63
\*   episode_4  the numerals or digits between U+7B2C and U+96C6
\*   episode_5  [Ee][Pp]?(\d+)
PatternAt(p, s, i) ==
    CASE p = "multi_1" ->
            LET a == DigitRunEnd(s, i + 1)
                b == DigitRunEnd(s, a + 2)
                c == Opt(s, b + 2, "e")
                d == DigitRunEnd(s, c)
            IN  IF /\ CharAt(s, i) = "s" /\ a >= i + 1 /\ CharAt(s, a + 1) = "e"
                   /\ b >= a + 2 /\ CharAt(s, b + 1) = "-" /\ d >= c
                THEN Groups(<<SubSeq(s, i + 1, a), SubSeq(s, a + 2, b), SubSeq(s, c, d)>>)
                ELSE NoGroups
      [] p = "multi_2" ->
            LET a0 == Opt(s, i + 1, "p")
                a  == DigitRunEnd(s, a0)
                c  == Opt(s, Opt(s, a + 2, "e"), "p")
                d  == DigitRunEnd(s, c)
            IN  IF /\ CharAt(s, i) = "e" /\ a >= a0 /\ CharAt(s, a + 1) = "-" /\ d >= c
                THEN Groups(<<SubSeq(s, a0, a), SubSeq(s, c, d)>>)
                ELSE NoGroups
      [] p = "episode_1" ->
            LET a == DigitRunEnd(s, i + 1)
                c == Opt(s, a + 2, "p")
                d == DigitRunEnd(s, c)
            IN  IF /\ CharAt(s, i) = "s" /\ a >= i + 1 /\ CharAt(s, a + 1) = "e" /\ d >= c
                THEN Groups(<<SubSeq(s, i + 1, a), SubSeq(s, c, d)>>)
                ELSE NoGroups
      [] p = "episode_2" ->
            LET a == DigitRunEnd(s, i + 1)
                e == Opt(s, a + 1, ".")
                d == DigitRunEnd(s, e + 1)
            IN  IF /\ CharAt(s, i) = "s" /\ a >= i + 1 /\ CharAt(s, e) = "e" /\ d >= e + 1
                THEN Groups(<<SubSeq(s, i + 1, a), SubSeq(s, e + 1, d)>>)
                ELSE NoGroups
      [] p = "episode_3" ->
            LET a == DigitRunEnd(s, i)
                d == DigitRunEnd(s, a + 2)
            IN  IF a >= i /\ CharAt(s, a + 1) = "x" /\ d >= a + 2
                THEN Groups(<<SubSeq(s, i, a), SubSeq(s, a + 2, d)>>)
                ELSE NoGroups
      [] p \in {"episode_4", "season_2"} ->
            LET a == RunEnd(s, i + 1, PatternNumerals \cup DigitChars)
            IN  IF /\ CharAt(s, i) = Zh_di /\ a >= i + 1
                   /\ CharAt(s, a + 1) = (IF p = "season_2" THEN Zh_ji ELSE Zh_episode)
                THEN Groups(<<SubSeq(s, i + 1, a)>>)
                ELSE NoGroups
      [] p = "episode_5" ->
            LET c == Opt(s, i + 1, "p")
                d == DigitRunEnd(s, c)
            IN  IF CharAt(s, i) = "e" /\ d >= c
                THEN Groups(<<SubSeq(s, c, d)>>)
                ELSE NoGroups
      [] p = "season_1" ->
            LET eason == /\ i + 5 <= Len(s)
                         /\ LowerStr(SubSeq(s, i + 1, i + 5)) = <<"e", "a", "s", "o", "n">>
                c == IF eason /\ IsDigitAt(s, RunEnd(s, i + 6, {" "}) + 1)
                     THEN RunEnd(s, i + 6, {" "}) + 1 ELSE i + 1
                d == DigitRunEnd(s, c)
            IN  IF CharAt(s, i) = "s" /\ d >= c
                THEN Groups(<<SubSeq(s, c, d)>>)
                ELSE NoGroups
      [] p = "season_3" ->
            LET a == RunEnd(s, i, PatternNumerals)
            IN  IF a >= i /\ CharAt(s, a + 1) = Zh_ji
                THEN Groups(<<SubSeq(s, i, a)>>)
                ELSE NoGroups

\* re.search(pattern, s, re.IGNORECASE): the leftmost match
Search(p, s) ==
    LET hits == {i \in 1..Len(s) : PatternAt(p, s, i).ok}
    IN  IF hits = {} THEN NoGroups
        ELSE PatternAt(p, s, CHOOSE i \in hits : \A j \in hits : i <= j)

\* int(text): the value, or ValueError for a text that is not all digits
IsInt(text) == text # <<>> /\ Range(text) \subseteq DigitChars

EpisodeInfo(season, episode, end_episode) ==
    [season |-> season, episode |-> episode, end_episode |-> end_episode]

\* normalized.rsplit('.', 1)[0]
BeforeLastDot(s) ==
    LET dots == {k \in 1..Len(s) : s[k] = "."}
    IN  IF dots = {} THEN s
        ELSE SubSeq(s, 1, (CHOOSE x \in dots : \A y \in dots : y <= x) - 1)

\* (?:^|[^\d])(\d{1,3})(?:[^\d]|$): the first run of one to three digits
StandaloneNumber(s) ==
    LET runs == {i \in 1..Len(s) :
                    /\ IsDigitAt(s, i) /\ ~IsDigitAt(s, i - 1)
                    /\ DigitRunEnd(s, i) - i + 1 <= 3}
    IN  IF runs = {} THEN NoGroups
        ELSE LET i == CHOOSE x \in runs : \A y \in runs : x <= y
             IN  Groups(<<SubSeq(s, i, DigitRunEnd(s, i))>>)

\* lines 206-253, on the normalized filename
EpisodeInfoOf(normalized) ==
    LET m1 == Search("multi_1", normalized)
        m2 == Search("multi_2", normalized)
        e1 == Search("episode_1", normalized)
        e2 == Search("episode_2", normalized)
        e3 == Search("episode_3", normalized)
        e4 == Search("episode_4", normalized)
        e5 == Search("episode_5", normalized)
        num == StandaloneNumber(BeforeLastDot(normalized))
        two(m) == EpisodeInfo(PyInt(DigitsVal(m.groups[1])), PyInt(DigitsVal(m.groups[2])),
                              PyNone)
    IN  CASE m1.ok -> EpisodeInfo(PyInt(DigitsVal(m1.groups[1])), PyInt(DigitsVal(m1.groups[2])),
                                  PyInt(DigitsVal(m1.groups[3])))
          [] ~m1.ok /\ m2.ok ->
                EpisodeInfo(PyInt(1), PyInt(DigitsVal(m2.groups[1])),
                            PyInt(DigitsVal(m2.groups[2])))
          [] OTHER ->
                IF e1.ok THEN two(e1)
                ELSE IF e2.ok THEN two(e2)
                ELSE IF e3.ok THEN two(e3)
                ELSE IF e4.ok /\ Range(e4.groups[1]) \cap PlainNumerals # {}
                THEN EpisodeInfo(PyNone, PyInt(_parse_chinese_number(e4.groups[1])), PyNone)
                ELSE IF e4.ok /\ IsInt(e4.groups[1])
                THEN EpisodeInfo(PyNone, PyInt(DigitsVal(e4.groups[1])), PyNone)
                ELSE IF e5.ok
                THEN EpisodeInfo(PyNone, PyInt(DigitsVal(e5.groups[1])), PyNone)
                ELSE IF num.ok /\ DigitsVal(num.groups[1]) \in 1..300
                THEN EpisodeInfo(PyNone, PyInt(DigitsVal(num.groups[1])), PyNone)
                ELSE EpisodeInfo(PyNone, PyNone, PyNone)

\* an extractor that knows no episode ranges
extract_episode_info_single(filename) ==
    CHOOSE info \in {[EpisodeInfoOf(normalized) EXCEPT !.end_episode = PyNone] :
                         normalized \in {_normalize_text(filename)}} : TRUE

\* lines 193-253: the text is normalized, then the patterns are tried
extract_episode_info(filename) ==
    CHOOSE info \in {EpisodeInfoOf(normalized) :
                         normalized \in {_normalize_text(filename)}} : TRUE

\* lines 179-191, on the normalized text: the season patterns in their order
SeasonNumberOf(normalized, fallback) ==
    LET value(m) == IF Range(m.groups[1]) \cap PatternNumerals # {}
                    THEN _parse_chinese_number(m.groups[1])
                    ELSE DigitsVal(m.groups[1])
        s1 == Search("season_1", normalized)
        s2 == Search("season_2", normalized)
        s3 == Search("season_3", normalized)
    IN  IF s1.ok THEN value(s1)
        ELSE IF s2.ok THEN value(s2)
        ELSE IF s3.ok THEN value(s3)
        ELSE fallback

extract_season_number(text, fallback) ==
    CHOOSE season \in {SeasonNumberOf(normalized, fallback) :
                           normalized \in {_normalize_text(text)}} : TRUE

\* (?:19|20)\d{2} between word boundaries, the leftmost
YearOf(filename) ==
    LET hits == {i \in 1..Len(filename) :
                    /\ WordBoundary(filename, i) /\ WordBoundary(filename, i + 4)
                    /\ DigitRunEnd(filename, i) = i + 3
                    /\ SubSeq(filename, i, i + 1) \in {<<"1", "9">>, <<"2", "0">>}}
    IN  IF hits = {} THEN PyNone
        ELSE PyInt(DigitsVal(SubSeq(filename, CHOOSE i \in hits : \A j \in hits : i <= j,
                                    (CHOOSE i \in hits : \A j \in hits : i <= j) + 3)))

\* PatternResult: the year and what extract_episode_info found
extract(filename) ==
    CHOOSE pattern_result \in
        {[season |-> info.season, episode |-> info.episode,
          end_episode |-> info.end_episode, year |-> YearOf(filename)] :
            info \in {extract_episode_info(filename)}} : TRUE

----------------------------------------------------------------------------
(* The extractor on filenames and the names rendered from what it found.    *)
(* tasks is one file on its way: the filename with what it was built from,  *)
(* the extraction result, the season extract_season_number finds, and the   *)
(* names of the TV result built from the extraction.                        *)

Ext_dot_mkv == <<".">> \o Ext_mkv

\* quality, codec, source and year tokens
NameTokens ==
    {<<"1", "0", "8", "0", "p">>, <<"x", "2", "6", "4">>, <<"W", "E", "B", "-", "D", "L">>,
     <<"2", "0", "2", "0">>, <<"4", "K">>}

\* a marker with the numbers it stands for
Marker(kind, text, season, episode, end_episode) ==
    [kind |-> kind, text |-> text, season |-> season, episode |-> episode,
     end_episode |-> end_episode]

SingleMarkers ==
    {Marker("single", text, 2, 5, 0) :
        text \in {<<"S", "0", "2", "E", "0", "5">>, <<"s", "0", "2", "e", "0", "5">>,
                  <<"s", "0", "2", "E", "0", "5">>, <<"S", "2", "E", "5">>}}

RangeMarkers ==
    {Marker("range", <<"E", "0", "1", "-", "E", "0", "3">>, 1, 1, 3),
     Marker("range", <<"e", "0", "1", "-", "e", "0", "3">>, 1, 1, 3),
     Marker("range", <<"S", "0", "1", "E", "0", "1", "-", "E", "0", "3">>, 1, 1, 3),
     Marker("range", <<"S", "0", "2", "E", "1", "0", "-", "E", "1", "2">>, 2, 10, 12)}

SeasonMarkers ==
    {Marker("season", <<Zh_di>> \o numeral.text \o <<Zh_ji>> \o episode, numeral.value, 0, 0) :
        numeral \in {[text |-> <<"U+4E09">>, value |-> 3],
                     [text |-> <<"U+5341">>, value |-> 10],
                     [text |-> <<"U+4E8C", "U+5341", "U+4E00">>, value |-> 21],
                     [text |-> <<"U+5341", "U+4E8C">>, value |-> 12]},
        episode \in {<<>>, <<" ", Zh_di, "U+516D", Zh_episode>>}}

\* [title.][token.]marker[separator token].mkv
FilenameCases(tokens) ==
    {[filename |-> title \o before \o marker.text \o after \o Ext_dot_mkv, marker |-> marker] :
        title \in {<<>>, <<"S", "h", "o", "w", ".">>},
        before \in {<<>>} \cup {token \o <<".">> : token \in tokens},
        marker \in SingleMarkers \cup RangeMarkers \cup SeasonMarkers,
        after \in {<<>>} \cup {<<sep>> \o token : sep \in {".", "-", " "}, token \in tokens}}

NoEpisodeInfo == [season |-> PyNone, episode |-> PyNone, end_episode |-> PyNone, year |-> PyNone]

InitPatterns ==
    /\ rules = <<>>
    /\ engine = EngineInit("off", RecognitionResult(File_A, NoMedia, "low"), "local")
    /\ TransferUnused
    /\ clock = 0
    /\ llm = <<>>
    /\ tmdb = <<>>
    /\ \E case \in FilenameCases(NameTokens), pattern_name \in {"emby_standard", "plex_standard"} :
          tasks = [pc |-> "idle", filename |-> case.filename, marker |-> case.marker,
                   pattern_name |-> pattern_name, pattern_result |-> NoEpisodeInfo,
                   season_number |-> 0, media_info |-> NoMedia, names |-> NoNames]
    /\ cache = <<>>

\* recognize_single, line 120: pattern_extractor.extract(filename)
PatternExtract ==
    /\ tasks.pc = "idle"
    /\ tasks' = [tasks EXCEPT !.pc = "extracted", !.pattern_result = extract(tasks.filename)]
    /\ UNCHANGED <<rules, engine, transferVars, clock, llm, tmdb, cache>>

\* pattern_extractor.extract_season_number(filename), fallback 1
ExtractSeasonNumber ==
    /\ tasks.pc = "idle"
    /\ tasks' = [tasks EXCEPT !.pc = "season",
                              !.season_number = extract_season_number(tasks.filename, 1)]
    /\ UNCHANGED <<rules, engine, transferVars, clock, llm, tmdb, cache>>

\* _build_recognition_result, lines 312-316, for a TV match and a language
\* model that named no season or episode, followed by generate_names
RenderEpisode ==
    /\ tasks.pc = "extracted"
    /\ \E media_info \in {[MediaInfo("tv", Name_Title, PyInt(2020),
                                     Or(PyNone, tasks.pattern_result.season),
                                     Or(PyNone, tasks.pattern_result.episode),
                                     PyInt(99), TMDB_Empty)
                              EXCEPT !.end_episode =
                                         Or(PyNone, tasks.pattern_result.end_episode)]} :
          tasks' = [tasks EXCEPT
                       !.pc = "named",
                       !.media_info = media_info,
                       !.names = generate_names(
                                     RecognitionResult(
                                         FileInfo(tasks.filename, <<"/", "i", "/">> \o tasks.filename,
                                                  Ext_dot_mkv),
                                         media_info, "high"),
                                     tasks.pattern_name)]
    /\ UNCHANGED <<rules, engine, transferVars, clock, llm, tmdb, cache>>

NextPatterns ==
    \/ PatternExtract
    \/ ExtractSeasonNumber
    \/ RenderEpisode

SpecPatterns == InitPatterns /\ [][NextPatterns]_vars

\* "S<ss>E<start>-E<end>"
RangeText(season, episode, end_episode) ==
    <<"S">> \o Pad2(season) \o <<"E">> \o Pad2(episode) \o <<"-", "E">> \o Pad2(end_episode)

\* C31: a filename with an episode range E<a>-E<b> or S<s>E<a>-E<b> is
\* extracted as episode a and end_episode b, and the episode file name of every
\* TV result that has an end_episode contains the range S<ss>E<a>-E<b>
C31_RangeExtractedAndRendered ==
    /\ (tasks.pc \in {"extracted", "named"} /\ tasks.marker.kind = "range")
       => /\ tasks.pattern_result.episode = PyInt(tasks.marker.episode)
          /\ tasks.pattern_result.end_episode = PyInt(tasks.marker.end_episode)
    /\ (tasks.pc = "named" /\ Truthy(tasks.media_info.end_episode))
       => IsSubstr(RangeText(Or(tasks.media_info.season, PyInt(1)).i,
                             Or(tasks.media_info.episode, PyInt(1)).i,
                             tasks.media_info.end_episode.i),
                   tasks.names.file_name.s)

C31_Witness ==
    /\ tasks.pc = "named"
    /\ tasks.marker.kind = "range"
    /\ tasks.pattern_result.episode = PyInt(1)
    /\ tasks.media_info.end_episode = PyInt(3)
    /\ IsSubstr(<<"S", "0", "1", "E", "0", "1", "-", "E", "0", "3">>, tasks.names.file_name.s)

\* C34: for a filename that contains S<season>E<episode> in any letter case,
\* also next to quality, codec, source or year tokens, the extractor returns
\* that season, that episode and no end_episode
C34_SeasonEpisodeExact ==
    (tasks.pc = "extracted" /\ tasks.marker.kind = "single")
    => /\ tasks.pattern_result.season = PyInt(tasks.marker.season)
       /\ tasks.pattern_result.episode = PyInt(tasks.marker.episode)
       /\ tasks.pattern_result.end_episode = PyNone

\* C35: for a filename with a season marker of a CJK numeral between U+7B2C
\* and U+5B63, the season of the extraction result is the positional value of
\* the numeral
C35_NumeralSeasonResolved ==
    (tasks.pc = "extracted" /\ tasks.marker.kind = "season")
    => tasks.pattern_result.season = PyInt(tasks.marker.season)

----------------------------------------------------------------------------
(* _substitute on templates over the variables of the context.  tasks is    *)
(* one call: the template, the result the context is built from and what    *)
(* the call gave.                                                           *)

\* "{:02d}".format(value) raises TypeError for None, which the except clause
\* of _substitute (ValueError, KeyError) lets through
SubstituteRaises(template, context) ==
    \E k \in 1..Len(template) :
        /\ template[k].var # ""
        /\ template[k].fmt # ""
        /\ context[template[k].var].t = "none"

\* the outcome of self._substitute(template, context)
Substituted(template, context) ==
    IF SubstituteRaises(template, context) THEN Raised("TypeError")
    ELSE Returned(_substitute(template, context))

\* the variables a template can name
TemplateVariables ==
    {"title", "year", "tmdb_id", "version", "ext", "season", "episode", "end_episode",
     "episode_title"}

TemplateSegments ==
    {Lit(<<"-">>)} \cup {Var(key) : key \in TemplateVariables}
                   \cup {VarF(key, "02d") : key \in TemplateVariables}

\* the templates of one or two segments
Templates == {<<a>> : a \in TemplateSegments} \cup (TemplateSegments \X TemplateSegments)

\* a TV result that names nothing, one that names everything, and two between
SubstituteResults ==
    {RecognitionResult(FileInfo(Name_A2020, <<"/", "i", "/">> \o Name_A2020, extension),
                       [MediaInfo("tv", title, year, season, episode, tmdb_id, TMDB_Empty)
                           EXCEPT !.end_episode = end_episode], "high") :
        extension \in {<<>>, Ext_dot_mkv}, title \in {<<>>, Name_Title},
        year \in {PyNone, PyInt(2020)}, season \in {PyNone}, episode \in {PyInt(5)},
        tmdb_id \in {PyNone}, end_episode \in {PyNone, PyInt(6)}}

InitSubstitute ==
    /\ rules = <<>>
    /\ engine = EngineInit("off", RecognitionResult(File_A, NoMedia, "low"), "local")
    /\ TransferUnused
    /\ clock = 0
    /\ llm = <<>>
    /\ tmdb = <<>>
    /\ \E template \in Templates, result \in SubstituteResults :
          tasks = [pc |-> "idle", template |-> template, result |-> result,
                   out |-> Returned(<<>>)]
    /\ cache = <<>>

\* self._substitute(template, self._build_context(result))
Substitute ==
    /\ tasks.pc = "idle"
    /\ tasks' = [tasks EXCEPT !.pc = "done",
                              !.out = Substituted(tasks.template,
                                                  _build_context(tasks.result))]
    /\ UNCHANGED <<rules, engine, transferVars, clock, llm, tmdb, cache>>

NextSubstitute == Substitute

SpecSubstitute == InitSubstitute /\ [][NextSubstitute]_vars

\* the result has no value for the variable
Absent(result, key) ==
    CASE key = "title" -> result.media_info.title = <<>>
      [] key = "ext" -> result.file_info.extension = <<>>
      [] key \in {"version", "episode_title"} -> TRUE
      [] OTHER -> result.media_info[key].t = "none"

\* C32: substitution never raises, and a variable whose value is absent
\* renders as the empty string, as a plain placeholder and as a placeholder
\* with a format specifier
C32_AbsentRendersEmpty ==
    tasks.pc = "done"
    => /\ tasks.out.exc = ""
       /\ (Len(tasks.template) = 1 /\ tasks.template[1].var # ""
           /\ Absent(tasks.result, tasks.template[1].var))
          => tasks.out = Returned(<<>>)

----------------------------------------------------------------------------
(* execute_transfer with a global rule override *)

\* the item the k-th row of the running call was written for
ItemOfRow(k) == items[k - op.first_row + 1]

\* C33: in an execute_transfer with a global rule override, every item that is
\* transferred is transferred under the override rule: the row recorded for it
\* names the override rule, and its destination lies below the target path the
\* override rule's template gives for the item, never below a path of another
\* rule that the item carried before
C33_OverrideRoutesEveryItem ==
    (op.kind = "execute" /\ op.override # NoRule)
    => \A k \in op.first_row..Len(history) :
          history[k].status = "completed"
          => /\ history[k].matched_rule_id = op.override
             /\ op.override \in DOMAIN rules
             /\ Under(history[k].target_path,
                      _substitute_path_template(rules[op.override].target_path,
                                                ItemOfRow(k)))

----------------------------------------------------------------------------
(* The names of the dry run against the names of the transfer *)

\* C36: the folder name and the file name the dry run sets on an item are the
\* folder and file names of the path execute_transfer hands to move for that
\* item, whatever naming pattern the matched rule names
C36_DryRunNamesAreTransferNames ==
    tasks.pc = "destined"
    => /\ tasks.names.folder_name = tasks.result.target_folder_name
       /\ tasks.names.file_name = tasks.result.target_file_name
       /\ tasks.target_file_path =
              _build_full_target_path(
                  tasks.result.target_path.s,
                  [tasks.names EXCEPT !.folder_name = tasks.result.target_folder_name,
                                      !.file_name = tasks.result.target_file_name],
                  tasks.result.media_info.media_type)

----------------------------------------------------------------------------
(* transfer_tv_series and the episodes it has moved *)

\* C37: transfer_tv_series deletes no season folder after an episode of the
\* same call was moved into it, whatever seasons the items carry, so every
\* episode counted as transferred is at its destination when the call returns
C37_TransferredEpisodesStay ==
    /\ op.kind = "series"
       => \A i, j \in 1..Len(op.log) :
             (i < j /\ op.log[i].call = "move" /\ op.log[i].ok /\ op.log[j].call = "delete")
             => ~Under(op.log[i].path, op.log[j].path)
    /\ (ret.kind = "series" /\ op.kind = "idle")
       => \A k \in ret.first_row..ret.last_row :
             history[k].status = "completed" => history[k].target_path \in FilePaths(fs)

----------------------------------------------------------------------------
(* Scheduler: the detected-file callbacks of several jobs.  tasks are the    *)
(* _handle_detected_file coroutines, one for each notification, items is     *)
(* _pending_files (for each job the notifications waiting, by their number), *)
(* ret the batches handed to _process_detected_files.  The two sections      *)
(* under _processing_lock hold no await, so each is one step of the loop and *)
(* the lock is free whenever a coroutine asks for it; the sleeps may end in  *)
(* any order.                                                                *)

MaxNotifications == 3

JobIds == {"j1", "j2"}

\* lines 136-141 have run: the notification is in the pending list of its job
\* and the coroutine sleeps
Notified(job_id, file_path) ==
    [job_id |-> job_id, file_path |-> file_path, pc |-> "sleeping"]

InitBatching ==
    /\ rules = <<>>
    /\ engine = EngineInit("off", RecognitionResult(File_A, NoMedia, "low"), "local")
    /\ llm = <<>> /\ tmdb = <<>> /\ cache = <<>>
    /\ fs = EmptyFS
    /\ faults = 0
    /\ clock = 0
    /\ history = <<>>
    /\ calls = NoCalls
    /\ op = Idle
    /\ tasks = <<>>
    /\ items = [job_id \in {} |-> <<>>]
    /\ ret = <<>>

\* a lookup that leaves the list in the dict
pop_pending_kept(pending, job_id) == pending

\* self._pending_files.pop(job_id, []): what is left of the dict
pop_pending(pending, job_id) ==
    [j \in DOMAIN pending \ {job_id} |-> pending[j]]

\* lines 136-144: the callback of a monitor for a detected file, up to its sleep
HandleDetectedFile(job_id, file_path) ==
    /\ Len(tasks) < MaxNotifications
    /\ tasks' = Append(tasks, Notified(job_id, file_path))
    /\ items' = [j \in DOMAIN items \cup {job_id} |->
                    IF j = job_id
                    THEN (IF j \in DOMAIN items THEN items[j] ELSE <<>>) \o <<Len(tasks) + 1>>
                    ELSE items[j]]
    /\ UNCHANGED <<rules, engine, fs, history, op, ret, calls, faults, clock, llm, tmdb, cache>>

\* lines 146-150: the sleep of coroutine t is over; it takes the pending list of
\* its job and, with files in it, begins _process_detected_files
TakePending(t) ==
    /\ t \in 1..Len(tasks)
    /\ tasks[t].pc = "sleeping"
    /\ \E files_to_process \in {IF tasks[t].job_id \in DOMAIN items
                                THEN items[tasks[t].job_id] ELSE <<>>} :
          /\ items' = pop_pending(items, tasks[t].job_id)
          /\ IF files_to_process # <<>>
             THEN /\ tasks' = [tasks EXCEPT ![t].pc = "processing"]
                  /\ ret' = Append(ret, [job_id |-> tasks[t].job_id,
                                         file_paths |-> files_to_process, by |-> t])
             ELSE /\ tasks' = [tasks EXCEPT ![t].pc = "done"]
                  /\ ret' = ret
    /\ UNCHANGED <<rules, engine, fs, history, op, calls, faults, clock, llm, tmdb, cache>>

\* lines 152-259: _process_detected_files of the batch comes to its end
ProcessDetectedFiles(t) ==
    /\ t \in 1..Len(tasks)
    /\ tasks[t].pc = "processing"
    /\ tasks' = [tasks EXCEPT ![t].pc = "done"]
    /\ UNCHANGED <<rules, engine, items, fs, history, op, ret, calls, faults, clock, llm, tmdb,
                   cache>>

NextBatching ==
    \/ \E job_id \in JobIds, file_path \in DetectedPaths : HandleDetectedFile(job_id, file_path)
    \/ \E t \in 1..MaxNotifications : TakePending(t)
    \/ \E t \in 1..MaxNotifications : ProcessDetectedFiles(t)

SpecBatching == InitBatching /\ [][NextBatching]_vars

\* the places of notification n in the batches handed on
PlacesInBatches(n) ==
    {x \in (1..Len(ret)) \X (1..Len(tasks)) :
        x[2] <= Len(ret[x[1]].file_paths) /\ ret[x[1]].file_paths[x[2]] = n}

\* notification n waits in the pending list of its job
IsPending(n) ==
    /\ tasks[n].job_id \in DOMAIN items
    /\ \E k \in 1..Len(items[tasks[n].job_id]) : items[tasks[n].job_id][k] = n

\* C38: under every interleaving of the detected-file callbacks each
\* notification is placed in exactly one batch handed to processing, none is
\* lost and none processed twice, and a batch holds files of one job only
C38_EachNotificationInOneBatch ==
    /\ \A n \in 1..Len(tasks) :
          /\ Cardinality(PlacesInBatches(n)) <= 1
          /\ IsPending(n) <=> PlacesInBatches(n) = {}
          /\ (\A t \in 1..Len(tasks) : tasks[t].pc # "sleeping") => PlacesInBatches(n) # {}
    /\ \A b \in 1..Len(ret) :
          /\ ret[b].file_paths # <<>>
          /\ \A k \in 1..Len(ret[b].file_paths) :
                tasks[ret[b].file_paths[k]].job_id = ret[b].job_id

C38_Witness ==
    /\ Len(tasks) = MaxNotifications
    /\ \A t \in 1..Len(tasks) : tasks[t].pc = "done"
    /\ Len(ret) = 2
    /\ ret[1].job_id # ret[2].job_id
    /\ \E b \in 1..2 : Len(ret[b].file_paths) = 2

----------------------------------------------------------------------------
(* Life-event monitor: start_monitoring, stop_monitoring and stop_all as     *)
(* concurrent coroutines of one event loop (life_event_monitor.py).  op is   *)
(* the monitor (_jobs, _running, _monitor_task as the number of a task, 0    *)
(* for None), tasks the _monitor_loop tasks ever created, items the calls,   *)
(* clock the number of calls made.  A call gives way to others only at its   *)
(* await of the cancelled task; _ensure_client suspends nowhere.             *)

MaxMonitorCalls == 4

LifeEventMonitor == [_jobs |-> {}, _running |-> FALSE, _monitor_task |-> 0]

MonitorCall(kind, job_id, pc, awaits, returns) ==
    [kind |-> kind, job_id |-> job_id, pc |-> pc, awaits |-> awaits, returns |-> returns]

InitMonitor ==
    /\ rules = <<>>
    /\ engine = EngineInit("off", RecognitionResult(File_A, NoMedia, "low"), "local")
    /\ llm = <<>> /\ tmdb = <<>> /\ cache = <<>>
    /\ fs = EmptyFS
    /\ faults = 0
    /\ history = <<>>
    /\ calls = NoCalls
    /\ ret = NoReturn
    /\ clock = 0
    /\ op = LifeEventMonitor
    /\ tasks = <<>>
    /\ items = <<>>

\* lines 62-85; client_ok: _ensure_client finds the cookies and the package
start_monitoring(job_id, client_ok) ==
    /\ clock < MaxMonitorCalls
    /\ clock' = clock + 1
    /\ IF job_id \in op._jobs \/ ~client_ok
       THEN /\ items' = Append(items, MonitorCall("start", job_id, "returned", 0, FALSE))
            /\ UNCHANGED <<op, tasks>>
       ELSE /\ items' = Append(items, MonitorCall("start", job_id, "returned", 0, TRUE))
            /\ IF ~op._running
               THEN /\ tasks' = Append(tasks, "running")
                    /\ op' = [op EXCEPT !._jobs = @ \cup {job_id}, !._running = TRUE,
                                        !._monitor_task = Len(tasks) + 1]
               ELSE /\ tasks' = tasks
                    /\ op' = [op EXCEPT !._jobs = @ \cup {job_id}]
    /\ UNCHANGED <<rules, engine, fs, history, ret, calls, faults, llm, tmdb, cache>>

\* task.cancel(): a task that has ended stays ended
Cancel(ts, t) == [ts EXCEPT ![t] = IF @ = "running" THEN "cancelling" ELSE @]

\* lines 97-108: up to the await of the cancelled task, or to the return
StopMonitoringBegin(job_id) ==
    /\ clock < MaxMonitorCalls
    /\ clock' = clock + 1
    /\ IF job_id \notin op._jobs
       THEN /\ items' = Append(items, MonitorCall("stop", job_id, "returned", 0, FALSE))
            /\ UNCHANGED <<op, tasks>>
       ELSE IF op._jobs = {job_id} /\ op._monitor_task # 0
       THEN /\ op' = [op EXCEPT !._jobs = {}, !._running = FALSE]
            /\ tasks' = Cancel(tasks, op._monitor_task)
            /\ items' = Append(items, MonitorCall("stop", job_id, "awaiting",
                                                  op._monitor_task, TRUE))
       ELSE /\ op' = [op EXCEPT !._jobs = @ \ {job_id}]
            /\ tasks' = tasks
            /\ items' = Append(items, MonitorCall("stop", job_id, "returned", 0, TRUE))
    /\ UNCHANGED <<rules, engine, fs, history, ret, calls, faults, llm, tmdb, cache>>

\* lines 118-124: up to the await of the cancelled task, or to the return
StopAllBegin ==
    /\ clock < MaxMonitorCalls
    /\ clock' = clock + 1
    /\ op' = [op EXCEPT !._running = FALSE, !._jobs = {}]
    /\ IF op._monitor_task # 0
       THEN /\ tasks' = Cancel(tasks, op._monitor_task)
            /\ items' = Append(items, MonitorCall("stop_all", "", "awaiting",
                                                  op._monitor_task, TRUE))
       ELSE /\ tasks' = tasks
            /\ items' = Append(items, MonitorCall("stop_all", "", "returned", 0, TRUE))
    /\ UNCHANGED <<rules, engine, fs, history, ret, calls, faults, llm, tmdb, cache>>

\* lines 109-114 and 125-127: the awaited task has ended; the handle is cleared
StopEnd(c) ==
    /\ c \in 1..Len(items)
    /\ items[c].pc = "awaiting"
    /\ tasks[items[c].awaits] = "done"
    /\ op' = [op EXCEPT !._monitor_task = 0]
    /\ items' = [items EXCEPT ![c].pc = "returned"]
    /\ UNCHANGED <<rules, engine, tasks, fs, history, ret, calls, faults, clock, llm, tmdb,
                   cache>>

\* lines 133-147: CancelledError reaches the loop where it awaits and ends it; a
\* loop that was not cancelled ends when it finds _running false
MonitorLoopEnds(t) ==
    /\ t \in 1..Len(tasks)
    /\ \/ tasks[t] = "cancelling"
       \/ tasks[t] = "running" /\ ~op._running
    /\ tasks' = [tasks EXCEPT ![t] = "done"]
    /\ UNCHANGED <<rules, engine, items, fs, history, op, ret, calls, faults, clock, llm, tmdb,
                   cache>>

NextMonitor ==
    \/ \E job_id \in JobIds, client_ok \in BOOLEAN : start_monitoring(job_id, client_ok)
    \/ \E job_id \in JobIds : StopMonitoringBegin(job_id)
    \/ StopAllBegin
    \/ \E c \in 1..MaxMonitorCalls : StopEnd(c)
    \/ \E t \in 1..MaxMonitorCalls : MonitorLoopEnds(t)

SpecMonitor == InitMonitor /\ [][NextMonitor]_vars

\* the polling loops that poll: created, not cancelled, not ended
PollingLoops == {t \in 1..Len(tasks) : tasks[t] = "running"}

\* every call has returned and every loop that was told to end has ended
MonitorAtRest ==
    /\ \A c \in 1..Len(items) : items[c].pc = "returned"
    /\ \A t \in 1..Len(tasks) : tasks[t] # "cancelling"
    /\ \A t \in PollingLoops : op._running

\* C40: after any interleaving of start_monitoring, stop_monitoring and
\* stop_all calls a polling loop runs exactly when a job is registered, there is
\* never more than one polling loop, and the monitor holds the handle of the
\* running loop
C40_OneLoopWhileJobs ==
    /\ Cardinality(PollingLoops) <= 1
    /\ MonitorAtRest
       => /\ (PollingLoops # {}) <=> (op._jobs # {})
          /\ \A t \in PollingLoops : op._monitor_task = t

----------------------------------------------------------------------------
(* Recognition service: catalog requests that fail, and the cache being cleared *)

\* tmdb_client.py lines 138-156: the body of the answer, or None when the status is
\* an error or the request raised
_request(outcome, data) == IF outcome = "ok" THEN data ELSE PyNone

\* tmdb_client.py lines 167-169 and 197-199: no data, no results
SearchResults(data) == IF data = PyNone THEN <<>> ELSE data.results

\* tmdb_client.py lines 343-351: every search came back empty
BestMatch(results) == IF results = <<>> THEN NoMatch ELSE results[1]

RequestOutcomes == {"ok", "status_error", "request_failed"}

\* lines 134-153 with a catalog that answers nothing or cannot be reached: no match,
\* and the result is built and cached all the same; faults counts the failed requests
CatalogRequestFailed(outcome) ==
    /\ tasks.pc = "tmdb"
    /\ tasks.call = "recognize_single"
    /\ \E tmdb_result \in {BestMatch(SearchResults(_request(outcome, [results |-> <<>>])))} :
       \E result \in {_build_recognition_result(tasks.file_info, tasks.llm_result,
                                                tmdb_result, tasks.media_type)} :
       \E file_hash \in {_compute_file_hash(tasks.file_info.name, tasks.file_info.size)} :
          /\ tasks' = [tasks EXCEPT !.pc = "done", !.ret = result,
                                    !.written[file_hash] = result]
          /\ cache' = _cache_result(file_hash, tasks.file_info.name, tasks.file_info.size,
                                    result)
    /\ faults' = IF outcome = "ok" THEN faults ELSE 1
    /\ UNCHANGED <<rules, engine, items, fs, history, op, ret, calls, clock, llm, tmdb>>

\* routers/recognize.py lines 209-231: DELETE /cache/{file_hash}
clear_cached_recognition(file_hash) ==
    /\ _get_cached_result(file_hash) # {}
    /\ cache' = SelectSeq(cache, LAMBDA row : row.file_hash # file_hash)
    /\ tasks' = [tasks EXCEPT !.written[file_hash] = NoResult]
    /\ UNCHANGED <<rules, engine, transferVars, clock, llm, tmdb>>

\* routers/recognize.py lines 234-247: DELETE /cache
clear_all_cache ==
    /\ cache' = <<>>
    /\ tasks' = [tasks EXCEPT !.written = [h \in FileHashes |-> NoResult]]
    /\ UNCHANGED <<rules, engine, transferVars, clock, llm, tmdb>>

NextNoMatch ==
    \/ NextRecognition
    \/ \E outcome \in RequestOutcomes : CatalogRequestFailed(outcome)
    \/ \E file_hash \in FileHashes : clear_cached_recognition(file_hash)
    \/ clear_all_cache

SpecNoMatch == InitRecognition /\ [][NextNoMatch]_vars

\* the result last written for this fingerprint and not cleared since came from
\* recognize_single and has no match
NoMatchCached(file_hash) ==
    /\ tasks.written[file_hash] # NoResult
    /\ ~tasks.written[file_hash].media_info.present
    /\ ~tasks.written[file_hash].user_override

\* C39: once recognize_single has found no match for a fingerprint, whether the
\* catalog answered nothing or the request failed, every later recognize_single of
\* that name and size is answered in one step from the cache, with confidence low and
\* no media info, and neither the LLM agent nor the catalog is called, as long as the
\* entry was not cleared and the file not re-identified
C39_NoMatchIsCached ==
    [][(/\ tasks.pc = "idle"
        /\ tasks'.pc # "idle"
        /\ tasks'.call = "recognize_single"
        /\ NoMatchCached(_compute_file_hash(tasks'.file_info.name, tasks'.file_info.size)))
       => /\ tasks'.pc = "done"
          /\ tasks'.hit
          /\ tasks'.ret.confidence = "low"
          /\ ~tasks'.ret.media_info.present
          /\ tasks'.ret =
                [tasks.written[_compute_file_hash(tasks'.file_info.name,
                                                  tasks'.file_info.size)]
                    EXCEPT !.file_info = tasks'.file_info]
          /\ UNCHANGED <<llm, tmdb, cache>>]_vars

\* the third call for a name and size whose first recognition met a failed catalog
\* request is answered from the cache: one LLM call and one catalog call in all
C39_Witness ==
    /\ tasks.call = "recognize_single"
    /\ tasks.pc = "done"
    /\ tasks.hit
    /\ tasks.ncalls = 2
    /\ faults = 1
    /\ tasks.prev.call = "recognize_single"
    /\ ~tasks.ret.media_info.present
    /\ tasks.ret.confidence = "low"
    /\ llm.calls = 1 /\ tmdb.calls = 1
    /\ Len(cache) = 1

====
